---- MODULE Spec2Model ----
(***************************************************************************)
(* Binary-operator node of the expression language                         *)
(* (lib/vrl/compiler/src/expression/op.rs): single-record evaluation       *)
(* (Op::resolve) and batch evaluation (Op::resolve_batch) over a batch of  *)
(* record slots; construction (Op::new) and static type inference          *)
(* (Op::type_def) over operands whose TypeDef is known at compile time.    *)
(*                                                                         *)
(* Sub-expressions are expression trees whose leaves are side-effect free: *)
(* a leaf has one fixed outcome (a value or an error) per record.  Every   *)
(* evaluation of a leaf on a record is logged, so that "evaluated at most  *)
(* once" and "never evaluated" are observable.                             *)
(***************************************************************************)
EXTENDS Integers, Sequences, FiniteSets, TLC

\* Largest number of records in one batch.
MaxBatch == 3

(***************************************************************************)
(* Opcodes, values and results                                             *)
(***************************************************************************)

ShortCircuitOpcodes == {"Err", "Or", "And"}

ComparisonOpcodes == {"Eq", "Ne", "Lt", "Le", "Gt", "Ge"}

Opcodes ==
    {"Mul", "Div", "Add", "Sub", "Rem", "Merge"}
        \cup ComparisonOpcodes \cup ShortCircuitOpcodes

\* A Resolved is Result<Value, ExpressionError>.  Both alternatives share one
\* record shape: for a value k is its kind and v its payload; for an error k
\* is the error variant and lk/rk the operand kinds (or the failing leaf).
Ok(kind, payload) == [tag |-> "Ok", k |-> kind, v |-> payload, lk |-> "", rk |-> ""]

Null == Ok("Null", 0)

Boolean(b) == Ok("Boolean", IF b THEN 1 ELSE 0)

Integer(n) == Ok("Integer", n)

Float(n) == Ok("Float", n)

Object(keys) == Ok("Object", keys)

\* The error a failing sub-expression leaf raises.
LeafError(name) == [tag |-> "Err", k |-> "Leaf", v |-> 0, lk |-> name, rk |-> ""]

\* value::Error::<variant>(lhs kind, rhs kind) converted into an ExpressionError.
ValueError(variant, l, r) == [tag |-> "Err", k |-> variant, v |-> 0, lk |-> l.k, rk |-> r.k]

is_err(r) == r.tag = "Err"

is_ok(r) == r.tag = "Ok"

\* `Null | Boolean(false)`
IsNullOrFalse(val) == val.k = "Null" \/ (val.k = "Boolean" /\ val.v = 0)

(***************************************************************************)
(* Value capability: the fallible binary combinators, each followed by     *)
(* map_err(Into::into), on the kinds Null, Boolean, Integer, Float, Object *)
(***************************************************************************)

IsNumeric(val) == val.k \in {"Integer", "Float"}

NumKind(l, r) == IF l.k = "Integer" /\ r.k = "Integer" THEN "Integer" ELSE "Float"

try_mul(l, r) ==
    IF IsNumeric(l) /\ IsNumeric(r) THEN Ok(NumKind(l, r), l.v * r.v)
    ELSE ValueError("Mul", l, r)

try_div(l, r) ==
    IF IsNumeric(l) /\ IsNumeric(r)
    THEN IF r.v = 0 THEN ValueError("DivideByZero", l, r) ELSE Float(l.v \div r.v)
    ELSE ValueError("Div", l, r)

try_add(l, r) ==
    IF IsNumeric(l) /\ IsNumeric(r) THEN Ok(NumKind(l, r), l.v + r.v)
    ELSE ValueError("Add", l, r)

try_sub(l, r) ==
    IF IsNumeric(l) /\ IsNumeric(r) THEN Ok(NumKind(l, r), l.v - r.v)
    ELSE ValueError("Sub", l, r)

try_rem(l, r) ==
    IF IsNumeric(l) /\ IsNumeric(r)
    THEN IF r.v = 0 THEN ValueError("DivideByZero", l, r) ELSE Ok(NumKind(l, r), l.v % r.v)
    ELSE ValueError("Rem", l, r)

\* Loose equality: never fails; an integer equals the float of the same value.
eq_lossy(l, r) ==
    IF IsNumeric(l) /\ IsNumeric(r) THEN l.v = r.v ELSE l.k = r.k /\ l.v = r.v

try_gt(l, r) ==
    IF IsNumeric(l) /\ IsNumeric(r) THEN Boolean(l.v > r.v) ELSE ValueError("Gt", l, r)

try_ge(l, r) ==
    IF IsNumeric(l) /\ IsNumeric(r) THEN Boolean(l.v >= r.v) ELSE ValueError("Ge", l, r)

try_lt(l, r) ==
    IF IsNumeric(l) /\ IsNumeric(r) THEN Boolean(l.v < r.v) ELSE ValueError("Lt", l, r)

try_le(l, r) ==
    IF IsNumeric(l) /\ IsNumeric(r) THEN Boolean(l.v <= r.v) ELSE ValueError("Le", l, r)

\* An object's payload is its key set, 1 = {x}, 2 = {y}, 3 = {x, y}.
try_merge(l, r) ==
    IF l.k = "Object" /\ r.k = "Object"
    THEN Object(IF l.v = r.v THEN l.v ELSE 3)
    ELSE ValueError("Merge", l, r)

\* Boolean AND; Null coerces to false, any other non-boolean fails to coerce.
try_and(l, r) ==
    IF l.k = "Null" THEN Boolean(FALSE)
    ELSE IF l.k = "Boolean"
         THEN IF r.k = "Null" THEN Boolean(FALSE)
              ELSE IF r.k = "Boolean" THEN Boolean(l.v = 1 /\ r.v = 1)
              ELSE ValueError("And", l, r)
         ELSE ValueError("And", l, r)

(***************************************************************************)
(* Expression trees and record contexts                                    *)
(***************************************************************************)

LeafNames == {"a", "b", "c", "d", "e"}

\* A node of the closed Expr family that is not a binary operator.
Leaf(n) == [type |-> "Leaf", name |-> n, opcode |-> "", lhs |-> <<>>, rhs |-> <<>>]

\* struct Op { lhs, rhs, opcode }
Op(l, o, r) == [type |-> "Op", name |-> "", opcode |-> o, lhs |-> l, rhs |-> r]

\* What a leaf yields on one record.
Outcomes == {"null", "false", "true", "int", "obj1", "obj2", "err"}

OutcomeValue(o) ==
    CASE o = "null" -> Null
      [] o = "false" -> Boolean(FALSE)
      [] o = "true" -> Boolean(TRUE)
      [] o = "int" -> Integer(1)
      [] o = "obj1" -> Object(1)
      [] o = "obj2" -> Object(2)

\* Expression::resolve of a leaf on the record context rec.
LeafResolve(name, rec) ==
    IF rec.out[name] = "err" THEN LeafError(name)
    ELSE OutcomeValue(rec.out[name])

\* Value::try_or takes its lazily evaluated right-hand side exactly when the
\* left value is Null or false.
try_or_falls_back(val) == val.k = "Null" \/ (val.k = "Boolean" /\ val.v = 0)

(***************************************************************************)
(* Single-record evaluation.  An evaluation yields [res, trace]: the       *)
(* Resolved and the sequence of <<leaf, record id>> evaluations it made.   *)
(***************************************************************************)

RECURSIVE ExprResolve(_, _)

\* ResolveErr with the eager `or(self.rhs.resolve(ctx))` instead of or_else.
ResolveErr_EagerRhs(op, rec) ==
    LET l == ExprResolve(op.lhs, rec)
        r == ExprResolve(op.rhs, rec)
    IN [res |-> IF is_ok(l.res) THEN l.res ELSE r.res, trace |-> l.trace \o r.trace]

\* Err => self.lhs.resolve(ctx).or_else(|_| self.rhs.resolve(ctx))
ResolveErr(op, rec) ==
    LET l == ExprResolve(op.lhs, rec) IN
    IF is_ok(l.res) THEN l
    ELSE LET r == ExprResolve(op.rhs, rec) IN
         [res |-> r.res, trace |-> l.trace \o r.trace]

\* ResolveOr without the `?` on lhs: an lhs failure falls back to rhs as well.
ResolveOr_FallbackOnError(op, rec) ==
    LET l == ExprResolve(op.lhs, rec) IN
    IF is_err(l.res) \/ try_or_falls_back(l.res)
    THEN LET r == ExprResolve(op.rhs, rec) IN
         [res |-> r.res, trace |-> l.trace \o r.trace]
    ELSE l

\* Or => self.lhs.resolve(ctx)?.try_or(|| self.rhs.resolve(ctx))
ResolveOr(op, rec) ==
    LET l == ExprResolve(op.lhs, rec) IN
    IF is_err(l.res) THEN l
    ELSE IF try_or_falls_back(l.res)
         THEN LET r == ExprResolve(op.rhs, rec) IN
              [res |-> r.res, trace |-> l.trace \o r.trace]
         ELSE l

\* ResolveAnd whose first match arm is `Null` alone.
ResolveAnd_NullArmOnly(op, rec) ==
    LET l == ExprResolve(op.lhs, rec) IN
    IF is_err(l.res) THEN l
    ELSE IF l.res.k = "Null" THEN [res |-> Boolean(FALSE), trace |-> l.trace]
         ELSE LET r == ExprResolve(op.rhs, rec) IN
              [res |-> IF is_err(r.res) THEN r.res ELSE try_and(l.res, r.res),
               trace |-> l.trace \o r.trace]

\* And => match self.lhs.resolve(ctx)? { Null | Boolean(false) => Ok(false), v => v.try_and(rhs?) }
ResolveAnd(op, rec) ==
    LET l == ExprResolve(op.lhs, rec) IN
    IF is_err(l.res) THEN l
    ELSE IF IsNullOrFalse(l.res) THEN [res |-> Boolean(FALSE), trace |-> l.trace]
         ELSE LET r == ExprResolve(op.rhs, rec) IN
              [res |-> IF is_err(r.res) THEN r.res ELSE try_and(l.res, r.res),
               trace |-> l.trace \o r.trace]

\* The final match of resolve: the combinator of a non-short-circuit opcode.
Combine(opcode, l, r) ==
    CASE opcode = "Mul" -> try_mul(l, r)
      [] opcode = "Div" -> try_div(l, r)
      [] opcode = "Add" -> try_add(l, r)
      [] opcode = "Sub" -> try_sub(l, r)
      [] opcode = "Rem" -> try_rem(l, r)
      [] opcode = "Eq" -> Boolean(eq_lossy(l, r))
      [] opcode = "Ne" -> Boolean(~eq_lossy(l, r))
      [] opcode = "Gt" -> try_gt(l, r)
      [] opcode = "Ge" -> try_ge(l, r)
      [] opcode = "Lt" -> try_lt(l, r)
      [] opcode = "Le" -> try_le(l, r)
      [] opcode = "Merge" -> try_merge(l, r)

\* ResolveBinary that passes the operands to the combinator in swapped order.
ResolveBinary_SwappedOperands(op, rec) ==
    LET l == ExprResolve(op.lhs, rec) IN
    IF is_err(l.res) THEN l
    ELSE LET r == ExprResolve(op.rhs, rec) IN
         [res |-> IF is_err(r.res) THEN r.res ELSE Combine(op.opcode, r.res, l.res),
          trace |-> l.trace \o r.trace]

\* let lhs = self.lhs.resolve(ctx)?; let rhs = self.rhs.resolve(ctx)?; match ...
ResolveBinary(op, rec) ==
    LET l == ExprResolve(op.lhs, rec) IN
    IF is_err(l.res) THEN l
    ELSE LET r == ExprResolve(op.rhs, rec) IN
         [res |-> IF is_err(r.res) THEN r.res ELSE Combine(op.opcode, l.res, r.res),
          trace |-> l.trace \o r.trace]

\* Op::resolve
OpResolve(op, rec) ==
    CASE op.opcode = "Err" -> ResolveErr(op, rec)
      [] op.opcode = "Or" -> ResolveOr(op, rec)
      [] op.opcode = "And" -> ResolveAnd(op, rec)
      [] OTHER -> ResolveBinary(op, rec)

\* Expr::resolve: dispatch on the node variant.
ExprResolve(e, rec) ==
    IF e.type = "Leaf"
    THEN [res |-> LeafResolve(e.name, rec), trace |-> << <<e.name, rec.id>> >>]
    ELSE OpResolve(e, rec)

(***************************************************************************)
(* Batch container: an ordered sequence of slots [rec, resolved], rec      *)
(* being the record whose target/state handles the slot carries.           *)
(***************************************************************************)

RECURSIVE Concat(_)
\* The concatenation of a sequence of sequences.
Concat(ss) == IF Len(ss) = 0 THEN <<>> ELSE Head(ss) \o Concat(Tail(ss))

Min(x, y) == IF x <= y THEN x ELSE y

SlotIsErr(slot) == is_err(slot.resolved)

SlotIsOk(slot) == is_ok(slot.resolved)

\* BatchContext::drain_filter(|resolved| resolved.is_err()): removes the
\* matching slots from the batch and returns them, both in their order.
drain_filter(ctx) ==
    [drained |-> SelectSeq(ctx, SlotIsErr), kept |-> SelectSeq(ctx, SlotIsOk)]

\* BatchContext::extend(other): appends other's slots.
extend(ctx, other) == ctx \o other

\* std::mem::swap(ctx.resolved_values_mut(), &mut vec![Ok(Value::Null); ctx.len()])
TakeResolvedValues(ctx) ==
    [moved |-> [i \in 1..Len(ctx) |-> ctx[i].resolved],
     ctx |-> [i \in 1..Len(ctx) |-> [ctx[i] EXCEPT !.resolved = Null]]]

(***************************************************************************)
(* Batch evaluation.  Yields [ctx, trace].                                 *)
(***************************************************************************)

RECURSIVE ExprResolveBatch(_, _)

\* Err => for each slot: *resolved = lhs.resolve(ctx).or_else(|_| rhs.resolve(ctx))
BatchErr(op, rec) ==
    LET l == ExprResolve(op.lhs, rec) IN
    IF is_ok(l.res) THEN l
    ELSE LET r == ExprResolve(op.rhs, rec) IN
         [res |-> r.res, trace |-> l.trace \o r.trace]

\* Or => for each slot: *resolved = lhs.resolve(ctx)?.try_or(|| rhs.resolve(ctx))
BatchOr(op, rec) ==
    LET l == ExprResolve(op.lhs, rec) IN
    IF is_err(l.res) THEN l
    ELSE IF try_or_falls_back(l.res)
         THEN LET r == ExprResolve(op.rhs, rec) IN
              [res |-> r.res, trace |-> l.trace \o r.trace]
         ELSE l

\* And => for each slot: *resolved = match lhs.resolve(ctx)? { Null | Boolean(false) => ..., v => ... }
BatchAnd(op, rec) ==
    LET l == ExprResolve(op.lhs, rec) IN
    IF is_err(l.res) THEN l
    ELSE IF IsNullOrFalse(l.res) THEN [res |-> Boolean(FALSE), trace |-> l.trace]
         ELSE LET r == ExprResolve(op.rhs, rec) IN
              [res |-> IF is_err(r.res) THEN r.res ELSE try_and(l.res, r.res),
               trace |-> l.trace \o r.trace]

\* The body of the per-slot loop of a short-circuit opcode.
BatchShortCircuitSlot(op, rec) ==
    CASE op.opcode = "Err" -> BatchErr(op, rec)
      [] op.opcode = "Or" -> BatchOr(op, rec)
      [] op.opcode = "And" -> BatchAnd(op, rec)

\* return for (resolved, target, state, timezone) in ctx.iter_mut() { ... }
BatchShortCircuit(op, ctx) ==
    LET each == [i \in 1..Len(ctx) |-> BatchShortCircuitSlot(op, ctx[i].rec)] IN
    [ctx |-> [i \in 1..Len(ctx) |-> [ctx[i] EXCEPT !.resolved = each[i].res]],
     trace |-> Concat([i \in 1..Len(ctx) |-> each[i].trace])]

\* The match over `values`: *resolved = lhs.try_<op>(rhs).map_err(Into::into)
BatchCombine(opcode, l, r) ==
    CASE opcode = "Mul" -> try_mul(l, r)
      [] opcode = "Div" -> try_div(l, r)
      [] opcode = "Add" -> try_add(l, r)
      [] opcode = "Sub" -> try_sub(l, r)
      [] opcode = "Rem" -> try_rem(l, r)
      [] opcode = "Eq" -> Boolean(eq_lossy(l, r))
      [] opcode = "Ne" -> Boolean(~eq_lossy(l, r))
      [] opcode = "Gt" -> try_gt(l, r)
      [] opcode = "Ge" -> try_ge(l, r)
      [] opcode = "Lt" -> try_lt(l, r)
      [] opcode = "Le" -> try_le(l, r)
      [] opcode = "Merge" -> try_merge(l, r)

\* for ((rhs, target, state, _), lhs) in ctx.iter_mut().zip(lhs) { ... } and
\* the match over `values`: a zipped slot whose rhs failed has its error
\* moved out (Ok(Null) is left behind) into the rhs-err lists; any other
\* zipped slot gets the combinator's result.  Slots past the zip stay as is.
PartitionAndCombine(opcode, ctx, lhs) ==
    LET zipped == Min(Len(ctx), Len(lhs)) IN
    [ctx |-> [i \in 1..Len(ctx) |->
                IF i > zipped THEN ctx[i]
                ELSE IF is_err(ctx[i].resolved) THEN [ctx[i] EXCEPT !.resolved = Null]
                ELSE [ctx[i] EXCEPT !.resolved = BatchCombine(opcode, lhs[i], ctx[i].resolved)]],
     rhs_err |-> SelectSeq(SubSeq(ctx, 1, zipped), SlotIsErr)]

\* ctx.extend(ctx_lhs_err); ctx.extend(ctx_rhs_err)
Recombine(p, ctx_lhs_err, tr) ==
    [ctx |-> extend(extend(p.ctx, ctx_lhs_err), p.rhs_err), trace |-> tr]

\* From the rhs partition loop on, r being the batch after self.rhs.resolve_batch.
AfterRhs(opcode, ctx_lhs_err, lhs, ltrace, r) ==
    Recombine(PartitionAndCombine(opcode, r.ctx, lhs), ctx_lhs_err, ltrace \o r.trace)

\* self.rhs.resolve_batch(ctx) on the batch t.ctx left after the lhs values
\* were moved out into t.moved.
AfterTake(op, ctx_lhs_err, ltrace, t) ==
    AfterRhs(op.opcode, ctx_lhs_err, t.moved, ltrace, ExprResolveBatch(op.rhs, t.ctx))

\* let lhs = { ...swap... } on the batch d.kept left by drain_filter.
AfterDrain(op, ltrace, d) ==
    AfterTake(op, d.drained, ltrace, TakeResolvedValues(d.kept))

\* let ctx_lhs_err = ctx.drain_filter(|resolved| resolved.is_err())
AfterLhs(op, l) == AfterDrain(op, l.trace, drain_filter(l.ctx))

\* The partition/recombine path of resolve_batch (non-short-circuit opcodes),
\* from self.lhs.resolve_batch(ctx) on.
BatchBinary(op, ctx) == AfterLhs(op, ExprResolveBatch(op.lhs, ctx))

\* Op::resolve_batch
OpResolveBatch(op, ctx) ==
    IF op.opcode \in {"Err", "Or", "And"}
    THEN BatchShortCircuit(op, ctx)
    ELSE BatchBinary(op, ctx)

\* Expression::resolve_batch of a leaf: every slot's result is written in place.
LeafResolveBatch(name, ctx) ==
    [ctx |-> [i \in 1..Len(ctx) |-> [ctx[i] EXCEPT !.resolved = LeafResolve(name, ctx[i].rec)]],
     trace |-> [i \in 1..Len(ctx) |-> <<name, ctx[i].rec.id>>]]

\* Expr::resolve_batch: dispatch on the node variant.
ExprResolveBatch(e, ctx) ==
    IF e.type = "Leaf" THEN LeafResolveBatch(e.name, ctx) ELSE OpResolveBatch(e, ctx)

(***************************************************************************)
(* Static side: construction (Op::new) and type inference (Op::type_def).  *)
(***************************************************************************)

\* Largest number of kinds in the kind set of a non-literal operand.
MaxKinds == 2

\* The value kinds a TypeDef ranges over.
Kinds == {"Null", "Boolean", "Integer", "Float", "Bytes", "Object"}

\* TypeDef { kind, fallible }
TypeDef(kinds, f) == [kind |-> kinds, fallible |-> f]

\* Kind predicates: the kind set is exactly the one kind.
is_null(def) == def.kind = {"Null"}

is_boolean(def) == def.kind = {"Boolean"}

is_integer(def) == def.kind = {"Integer"}

is_float(def) == def.kind = {"Float"}

is_bytes(def) == def.kind = {"Bytes"}

is_object(def) == def.kind = {"Object"}

\* The kind set holds every kind of `kinds`.
is_superset(def, kinds) == kinds \subseteq def.kind

is_fallible(def) == def.fallible

is_infallible(def) == ~def.fallible

\* Union of the kinds; fallible if either is.
merge_deep(a, b) == TypeDef(a.kind \cup b.kind, a.fallible \/ b.fallible)

\* Object merge: the right shape overrides the left one where they overlap;
\* on kinds this is the union.
merge_overwrite(a, b) == TypeDef(a.kind \cup b.kind, a.fallible \/ b.fallible)

\* Fallible unless every kind is one of `allowed`.
fallible_unless(def, allowed) ==
    TypeDef(def.kind, def.fallible \/ ~(def.kind \subseteq allowed))

\* Replace the kinds, keep the fallibility.
with_kind(def, kinds) == TypeDef(kinds, def.fallible)

remove_null(def) == TypeDef(def.kind \ {"Null"}, def.fallible)

infallible(def) == TypeDef(def.kind, FALSE)

fallible(def) == TypeDef(def.kind, TRUE)

\* Value::Bytes
Bytes(n) == Ok("Bytes", n)

\* A literal node: its value is known at compile time.
Literal(val) ==
    [type |-> "Literal", name |-> "", opcode |-> "", lhs |-> <<>>, rhs |-> <<>>,
     value |-> val, def |-> TypeDef({val.k}, FALSE)]

\* Any other node variant (variable, query, function call, block): only its
\* inferred TypeDef is known at compile time.
Dynamic(def) ==
    [type |-> "Dynamic", name |-> "", opcode |-> "", lhs |-> <<>>, rhs |-> <<>>,
     value |-> <<>>, def |-> def]

\* Option<T>
None == <<>>

Some(x) == <<x>>

\* Expr::as_value: Some(value) for a literal node, None for the others.
as_value(e) == IF e.type = "Literal" THEN Some(e.value) ELSE None

\* f64::is_normal: neither zero, infinite, subnormal nor NaN.  The floats of
\* the model are the integral ones, of which zero alone is not normal.
is_normal(v) == v # 0

\* Span of a piece of source text.
Span(s, e) == [start |-> s, end |-> e]

\* Node<T>: a parsed item with its span.
Node(span, inner) == [span |-> span, inner |-> inner]

RECURSIVE Width(_)
\* Width of the source text of e: one column per leaf, `lhs <op> rhs` for an Op.
Width(e) == IF e.type = "Op" THEN Width(e.lhs) + 4 + Width(e.rhs) ELSE 1

\* The three nodes the parser hands to Op::new for the text `l o r`.
Parse(l, o, r) ==
    [lhs |-> Node(Span(0, Width(l)), l),
     opcode |-> Node(Span(Width(l) + 1, Width(l) + 3), o),
     rhs |-> Node(Span(Width(l) + 4, Width(l) + 4 + Width(r)), r)]

\* Result<Op, Error> of Op::new; the fields an error variant lacks are None.
NewOk(node) ==
    [tag |-> "Ok", op |-> node, error |-> "", span |-> None,
     lhs_span |-> None, rhs_span |-> None, op_span |-> None]

\* Error::ChainedComparison { span }
ChainedComparison(span) ==
    [tag |-> "Err", op |-> <<>>, error |-> "ChainedComparison", span |-> Some(span),
     lhs_span |-> None, rhs_span |-> None, op_span |-> None]

\* Error::UnnecessaryCoalesce { lhs_span, rhs_span, op_span }
UnnecessaryCoalesce(lhs_span, rhs_span, op_span) ==
    [tag |-> "Err", op |-> <<>>, error |-> "UnnecessaryCoalesce", span |-> None,
     lhs_span |-> Some(lhs_span), rhs_span |-> Some(rhs_span), op_span |-> Some(op_span)]

\* Error::MergeNonObjects { lhs_span: Option<Span>, rhs_span: Option<Span> }
MergeNonObjects(lhs_span, rhs_span) ==
    [tag |-> "Err", op |-> <<>>, error |-> "MergeNonObjects", span |-> None,
     lhs_span |-> lhs_span, rhs_span |-> rhs_span, op_span |-> None]

RECURSIVE ExprTypeDef(_)

\* Err arm: the coalesced node fails only if the fallback does.
TypeDefErr_NeverInfallible(lhs_def, rhs_def) == merge_deep(lhs_def, rhs_def)

TypeDefErr(lhs_def, rhs_def) ==
    IF is_infallible(rhs_def)
    THEN infallible(merge_deep(lhs_def, rhs_def))
    ELSE merge_deep(lhs_def, rhs_def)

\* Or arms.
TypeDefOr_AlwaysUnion(lhs_def, rhs_def) == merge_deep(lhs_def, rhs_def)

TypeDefOr(lhs_def, rhs_def) ==
    IF is_null(lhs_def) THEN rhs_def
    ELSE IF ~(is_superset(lhs_def, {"Null"}) \/ is_superset(lhs_def, {"Boolean"}))
    THEN lhs_def
    ELSE IF ~is_boolean(lhs_def)
    THEN merge_deep(remove_null(lhs_def), rhs_def)
    ELSE merge_deep(lhs_def, rhs_def)

\* Merge arm.
TypeDefMerge(lhs_def, rhs_def) == merge_overwrite(lhs_def, rhs_def)

\* And arms.
TypeDefAnd_NoNullArm(lhs_def, rhs_def) ==
    with_kind(merge_deep(fallible_unless(lhs_def, {"Null", "Boolean"}),
                         fallible_unless(rhs_def, {"Null", "Boolean"})),
              {"Boolean"})

TypeDefAnd(lhs_def, rhs_def) ==
    IF is_null(lhs_def)
    THEN with_kind(fallible_unless(rhs_def, {"Null", "Boolean"}), {"Boolean"})
    ELSE with_kind(merge_deep(fallible_unless(lhs_def, {"Null", "Boolean"}),
                              fallible_unless(rhs_def, {"Null", "Boolean"})),
                   {"Boolean"})

\* Eq | Ne arm.
TypeDefEq_NumericOnly(lhs_def, rhs_def) ==
    with_kind(merge_deep(fallible_unless(lhs_def, {"Integer", "Float"}),
                         fallible_unless(rhs_def, {"Integer", "Float"})),
              {"Boolean"})

TypeDefEq(lhs_def, rhs_def) == with_kind(merge_deep(lhs_def, rhs_def), {"Boolean"})

\* Gt | Ge | Lt | Le arms.
TypeDefOrd_NoBytesArm(lhs_def, rhs_def) ==
    with_kind(merge_deep(fallible_unless(lhs_def, {"Integer", "Float"}),
                         fallible_unless(rhs_def, {"Integer", "Float"})),
              {"Boolean"})

TypeDefOrd(lhs_def, rhs_def) ==
    IF is_bytes(lhs_def) /\ is_bytes(rhs_def)
    THEN with_kind(merge_deep(lhs_def, rhs_def), {"Boolean"})
    ELSE with_kind(merge_deep(fallible_unless(lhs_def, {"Integer", "Float"}),
                              fallible_unless(rhs_def, {"Integer", "Float"})),
                   {"Boolean"})

\* Div arm; rhs_value is self.rhs.as_value().
TypeDefDiv_AnyLiteral(lhs_def, rhs_value) ==
    IF rhs_value # None /\ (is_float(lhs_def) \/ is_integer(lhs_def))
    THEN infallible(TypeDef({"Float"}, FALSE))
    ELSE fallible(TypeDef({"Float"}, FALSE))

TypeDefDiv(lhs_def, rhs_value) ==
    IF rhs_value # None /\ (is_float(lhs_def) \/ is_integer(lhs_def))
    THEN IF rhs_value[1].k = "Float" /\ is_normal(rhs_value[1].v)
         THEN infallible(TypeDef({"Float"}, FALSE))
         ELSE IF rhs_value[1].k = "Integer" /\ rhs_value[1].v # 0
         THEN infallible(TypeDef({"Float"}, FALSE))
         ELSE fallible(TypeDef({"Float"}, FALSE))
    ELSE fallible(TypeDef({"Float"}, FALSE))

\* Rem arm; rhs_value is self.rhs.as_value().
TypeDefRem_IntegerAsFloat(lhs_def, rhs_value) ==
    IF rhs_value # None /\ (is_float(lhs_def) \/ is_integer(lhs_def))
    THEN IF rhs_value[1].k \in {"Float", "Integer"} /\ is_normal(rhs_value[1].v)
         THEN infallible(TypeDef({"Float"}, FALSE))
         ELSE IF rhs_value[1].k \in {"Float", "Integer"}
         THEN fallible(TypeDef({"Float"}, FALSE))
         ELSE fallible(TypeDef({"Float", "Integer"}, FALSE))
    ELSE fallible(TypeDef({"Float", "Integer"}, FALSE))

TypeDefRem_FloatUnchecked(lhs_def, rhs_value) ==
    IF rhs_value # None /\ (is_float(lhs_def) \/ is_integer(lhs_def))
    THEN IF rhs_value[1].k = "Float"
         THEN infallible(TypeDef({"Float"}, FALSE))
         ELSE IF rhs_value[1].k = "Integer" /\ rhs_value[1].v # 0
         THEN infallible(TypeDef({"Integer"}, FALSE))
         ELSE IF rhs_value[1].k = "Integer"
         THEN fallible(TypeDef({"Integer"}, FALSE))
         ELSE fallible(TypeDef({"Float", "Integer"}, FALSE))
    ELSE fallible(TypeDef({"Float", "Integer"}, FALSE))

TypeDefRem(lhs_def, rhs_value) ==
    IF rhs_value # None /\ (is_float(lhs_def) \/ is_integer(lhs_def))
    THEN IF rhs_value[1].k = "Float" /\ is_normal(rhs_value[1].v)
         THEN infallible(TypeDef({"Float"}, FALSE))
         ELSE IF rhs_value[1].k = "Float"
         THEN fallible(TypeDef({"Float"}, FALSE))
         ELSE IF rhs_value[1].k = "Integer" /\ rhs_value[1].v # 0
         THEN infallible(TypeDef({"Integer"}, FALSE))
         ELSE IF rhs_value[1].k = "Integer"
         THEN fallible(TypeDef({"Integer"}, FALSE))
         ELSE fallible(TypeDef({"Float", "Integer"}, FALSE))
    ELSE fallible(TypeDef({"Float", "Integer"}, FALSE))

\* Add | Sub | Mul arms, in match order.
TypeDefArith_FloatFirst(opcode, lhs_def, rhs_def) ==
    IF opcode = "Add" /\ (is_bytes(lhs_def) \/ is_bytes(rhs_def))
       /\ ~(is_float(lhs_def) \/ is_float(rhs_def))
    THEN with_kind(merge_deep(fallible_unless(lhs_def, {"Bytes", "Null"}),
                              fallible_unless(rhs_def, {"Bytes", "Null"})),
                   {"Bytes"})
    ELSE IF is_float(lhs_def) \/ is_float(rhs_def)
    THEN with_kind(merge_deep(fallible_unless(lhs_def, {"Integer", "Float"}),
                              fallible_unless(rhs_def, {"Integer", "Float"})),
                   {"Float"})
    ELSE IF is_integer(lhs_def) /\ is_integer(rhs_def)
    THEN with_kind(merge_deep(lhs_def, rhs_def), {"Integer"})
    ELSE IF opcode = "Mul" /\ is_bytes(lhs_def) /\ is_integer(rhs_def)
    THEN with_kind(merge_deep(lhs_def, rhs_def), {"Bytes"})
    ELSE IF opcode = "Mul" /\ is_integer(lhs_def) /\ is_bytes(rhs_def)
    THEN with_kind(merge_deep(lhs_def, rhs_def), {"Bytes"})
    ELSE IF opcode \in {"Add", "Mul"}
    THEN with_kind(fallible(merge_deep(lhs_def, rhs_def)), {"Bytes", "Integer", "Float"})
    ELSE with_kind(fallible(merge_deep(lhs_def, rhs_def)), {"Integer", "Float"})

TypeDefArith_IntegerFallible(opcode, lhs_def, rhs_def) ==
    IF opcode = "Add" /\ (is_bytes(lhs_def) \/ is_bytes(rhs_def))
    THEN with_kind(merge_deep(fallible_unless(lhs_def, {"Bytes", "Null"}),
                              fallible_unless(rhs_def, {"Bytes", "Null"})),
                   {"Bytes"})
    ELSE IF is_float(lhs_def) \/ is_float(rhs_def)
    THEN with_kind(merge_deep(fallible_unless(lhs_def, {"Integer", "Float"}),
                              fallible_unless(rhs_def, {"Integer", "Float"})),
                   {"Float"})
    ELSE IF is_integer(lhs_def) /\ is_integer(rhs_def)
    THEN with_kind(fallible(merge_deep(lhs_def, rhs_def)), {"Integer"})
    ELSE IF opcode = "Mul" /\ is_bytes(lhs_def) /\ is_integer(rhs_def)
    THEN with_kind(merge_deep(lhs_def, rhs_def), {"Bytes"})
    ELSE IF opcode = "Mul" /\ is_integer(lhs_def) /\ is_bytes(rhs_def)
    THEN with_kind(merge_deep(lhs_def, rhs_def), {"Bytes"})
    ELSE IF opcode \in {"Add", "Mul"}
    THEN with_kind(fallible(merge_deep(lhs_def, rhs_def)), {"Bytes", "Integer", "Float"})
    ELSE with_kind(fallible(merge_deep(lhs_def, rhs_def)), {"Integer", "Float"})

TypeDefArith_NoIntegerTimesBytes(opcode, lhs_def, rhs_def) ==
    IF opcode = "Add" /\ (is_bytes(lhs_def) \/ is_bytes(rhs_def))
    THEN with_kind(merge_deep(fallible_unless(lhs_def, {"Bytes", "Null"}),
                              fallible_unless(rhs_def, {"Bytes", "Null"})),
                   {"Bytes"})
    ELSE IF is_float(lhs_def) \/ is_float(rhs_def)
    THEN with_kind(merge_deep(fallible_unless(lhs_def, {"Integer", "Float"}),
                              fallible_unless(rhs_def, {"Integer", "Float"})),
                   {"Float"})
    ELSE IF is_integer(lhs_def) /\ is_integer(rhs_def)
    THEN with_kind(merge_deep(lhs_def, rhs_def), {"Integer"})
    ELSE IF opcode = "Mul" /\ is_bytes(lhs_def) /\ is_integer(rhs_def)
    THEN with_kind(merge_deep(lhs_def, rhs_def), {"Bytes"})
    ELSE IF FALSE
    THEN with_kind(merge_deep(lhs_def, rhs_def), {"Bytes"})
    ELSE IF opcode \in {"Add", "Mul"}
    THEN with_kind(fallible(merge_deep(lhs_def, rhs_def)), {"Bytes", "Integer", "Float"})
    ELSE with_kind(fallible(merge_deep(lhs_def, rhs_def)), {"Integer", "Float"})

TypeDefArith_FallbackKeepsFallibility(opcode, lhs_def, rhs_def) ==
    IF opcode = "Add" /\ (is_bytes(lhs_def) \/ is_bytes(rhs_def))
    THEN with_kind(merge_deep(fallible_unless(lhs_def, {"Bytes", "Null"}),
                              fallible_unless(rhs_def, {"Bytes", "Null"})),
                   {"Bytes"})
    ELSE IF is_float(lhs_def) \/ is_float(rhs_def)
    THEN with_kind(merge_deep(fallible_unless(lhs_def, {"Integer", "Float"}),
                              fallible_unless(rhs_def, {"Integer", "Float"})),
                   {"Float"})
    ELSE IF is_integer(lhs_def) /\ is_integer(rhs_def)
    THEN with_kind(merge_deep(lhs_def, rhs_def), {"Integer"})
    ELSE IF opcode = "Mul" /\ is_bytes(lhs_def) /\ is_integer(rhs_def)
    THEN with_kind(merge_deep(lhs_def, rhs_def), {"Bytes"})
    ELSE IF opcode = "Mul" /\ is_integer(lhs_def) /\ is_bytes(rhs_def)
    THEN with_kind(merge_deep(lhs_def, rhs_def), {"Bytes"})
    ELSE IF opcode \in {"Add", "Mul"}
    THEN with_kind(merge_deep(lhs_def, rhs_def), {"Bytes", "Integer", "Float"})
    ELSE with_kind(fallible(merge_deep(lhs_def, rhs_def)), {"Integer", "Float"})

TypeDefArith(opcode, lhs_def, rhs_def) ==
    IF opcode = "Add" /\ (is_bytes(lhs_def) \/ is_bytes(rhs_def))
    THEN with_kind(merge_deep(fallible_unless(lhs_def, {"Bytes", "Null"}),
                              fallible_unless(rhs_def, {"Bytes", "Null"})),
                   {"Bytes"})
    ELSE IF is_float(lhs_def) \/ is_float(rhs_def)
    THEN with_kind(merge_deep(fallible_unless(lhs_def, {"Integer", "Float"}),
                              fallible_unless(rhs_def, {"Integer", "Float"})),
                   {"Float"})
    ELSE IF is_integer(lhs_def) /\ is_integer(rhs_def)
    THEN with_kind(merge_deep(lhs_def, rhs_def), {"Integer"})
    ELSE IF opcode = "Mul" /\ is_bytes(lhs_def) /\ is_integer(rhs_def)
    THEN with_kind(merge_deep(lhs_def, rhs_def), {"Bytes"})
    ELSE IF opcode = "Mul" /\ is_integer(lhs_def) /\ is_bytes(rhs_def)
    THEN with_kind(merge_deep(lhs_def, rhs_def), {"Bytes"})
    ELSE IF opcode \in {"Add", "Mul"}
    THEN with_kind(fallible(merge_deep(lhs_def, rhs_def)), {"Bytes", "Integer", "Float"})
    ELSE with_kind(fallible(merge_deep(lhs_def, rhs_def)), {"Integer", "Float"})

\* The match of Op::type_def on the opcode.
TypeDefMatch(opcode, lhs_def, rhs_def, rhs_value) ==
    CASE opcode = "Err" -> TypeDefErr(lhs_def, rhs_def)
      [] opcode = "Or" -> TypeDefOr(lhs_def, rhs_def)
      [] opcode = "Merge" -> TypeDefMerge(lhs_def, rhs_def)
      [] opcode = "And" -> TypeDefAnd(lhs_def, rhs_def)
      [] opcode \in {"Eq", "Ne"} -> TypeDefEq(lhs_def, rhs_def)
      [] opcode \in {"Gt", "Ge", "Lt", "Le"} -> TypeDefOrd(lhs_def, rhs_def)
      [] opcode = "Div" -> TypeDefDiv(lhs_def, rhs_value)
      [] opcode = "Rem" -> TypeDefRem(lhs_def, rhs_value)
      [] OTHER -> TypeDefArith(opcode, lhs_def, rhs_def)

\* Op::type_def
OpTypeDef(node) ==
    TypeDefMatch(node.opcode, ExprTypeDef(node.lhs), ExprTypeDef(node.rhs), as_value(node.rhs))

\* Expr::type_def: dispatch on the node variant.
ExprTypeDef(e) == IF e.type = "Op" THEN OpTypeDef(e) ELSE e.def

\* Op::new, first check: a comparison whose lhs is a comparison node.
IsChainedComparison(lhs, opcode) ==
    /\ opcode \in ComparisonOpcodes
    /\ lhs.type = "Op"
    /\ lhs.opcode \in ComparisonOpcodes

\* Op::new, second check: `??` after an expression that cannot fail.
IsUnnecessaryCoalesce_Never(lhs_type_def, opcode) == FALSE

IsUnnecessaryCoalesce(lhs_type_def, opcode) ==
    opcode = "Err" /\ is_infallible(lhs_type_def)

\* Op::new, third check: the error of a merge with a non-object operand.
MergeError_BothSpans(lhs, rhs) ==
    MergeNonObjects(Some(lhs.span), Some(rhs.span))

MergeError(lhs, rhs) ==
    MergeNonObjects(
        IF is_object(ExprTypeDef(lhs.inner)) THEN None ELSE Some(lhs.span),
        IF is_object(ExprTypeDef(rhs.inner)) THEN None ELSE Some(rhs.span))

\* Op::new(lhs, opcode, rhs, state)
OpNew_LhsSpan(lhs, opcode, rhs) ==
    IF IsChainedComparison(lhs.inner, opcode.inner)
    THEN ChainedComparison(lhs.span)
    ELSE IF IsUnnecessaryCoalesce(ExprTypeDef(lhs.inner), opcode.inner)
    THEN UnnecessaryCoalesce(lhs.span, rhs.span, opcode.span)
    ELSE IF opcode.inner = "Merge"
            /\ ~(is_object(ExprTypeDef(lhs.inner)) /\ is_object(ExprTypeDef(rhs.inner)))
    THEN MergeError(lhs, rhs)
    ELSE NewOk(Op(lhs.inner, opcode.inner, rhs.inner))

OpNew(lhs, opcode, rhs) ==
    IF IsChainedComparison(lhs.inner, opcode.inner)
    THEN ChainedComparison(opcode.span)
    ELSE IF IsUnnecessaryCoalesce(ExprTypeDef(lhs.inner), opcode.inner)
    THEN UnnecessaryCoalesce(lhs.span, rhs.span, opcode.span)
    ELSE IF opcode.inner = "Merge"
            /\ ~(is_object(ExprTypeDef(lhs.inner)) /\ is_object(ExprTypeDef(rhs.inner)))
    THEN MergeError(lhs, rhs)
    ELSE NewOk(Op(lhs.inner, opcode.inner, rhs.inner))

(***************************************************************************)
(* UnixService (src/sinks/util/service/net/unix.rs): a tower Service over  *)
(* one Unix socket, reconnecting with backoff.                             *)
(***************************************************************************)

\* Largest number of connections the connector establishes.
MaxSockets == 2

\* Largest number of failed attempts of one connect_backoff future.
MaxAttempts == 2

\* ServiceState<UnixEither>; sockets are numbered from 1 in connection order.
Disconnected == [tag |-> "Disconnected", socket |-> 0]

Connecting == [tag |-> "Connecting", socket |-> 0]

Connected(s) == [tag |-> "Connected", socket |-> s]

Sending == [tag |-> "Sending", socket |-> 0]

\* The connect_backoff future held by Connecting: its failed attempts so far.
NoConnect == [running |-> FALSE, attempts |-> 0]

NewConnect == [running |-> TRUE, attempts |-> 0]

\* The oneshot channel between the service (receiver, held by Sending) and
\* the request future (sender): empty, a message sent, or the sender dropped
\* without sending.
NoChannel == [st |-> "none", val |-> None]

EmptyChannel == [st |-> "empty", val |-> None]

SentChannel(maybe_socket) == [st |-> "sent", val |-> maybe_socket]

ClosedChannel == [st |-> "closed", val |-> None]

\* The request future call returns: the socket and buffer it owns, and once
\* it completed its result ("Ok" with the bytes sent, or "Err").
NoRequest ==
    [st |-> "none", socket |-> 0, buf |-> <<>>, result |-> "", sent |-> 0, incomplete |-> FALSE]

PendingRequest(s, buf) ==
    [st |-> "pending", socket |-> s, buf |-> buf, result |-> "", sent |-> 0, incomplete |-> FALSE]

\* The panic of call outside Connected.
CallPanic == "panic: poll_ready must be called first"

\* What the connect_backoff future does when it is polled: an attempt
\* succeeds, an attempt fails and the backoff sleep starts, or it stays
\* pending on the connect or on the sleep.
ConnectProgress == {"connected", "failed", "pending"}

RECURSIVE PollLoop(_, _)
\* The loop of UnixService::poll_ready on the service m = [state, fut, chan,
\* established, path, ret]; path collects the states the call assigns.
PollLoop(m, progress) ==
    CASE m.state.tag = "Disconnected" ->
            PollLoop([m EXCEPT !.state = Connecting, !.fut = NewConnect,
                               !.path = Append(m.path, "Connecting")], progress)
      [] m.state.tag = "Connecting" ->
            IF progress = "connected"
            THEN PollLoop([m EXCEPT !.state = Connected(m.established + 1),
                                    !.established = m.established + 1,
                                    !.fut = NoConnect,
                                    !.path = Append(m.path, "Connected")], "pending")
            ELSE IF progress = "failed"
            THEN [m EXCEPT !.fut.attempts = m.fut.attempts + 1, !.ret = "Pending"]
            ELSE [m EXCEPT !.ret = "Pending"]
      [] m.state.tag = "Connected" -> [m EXCEPT !.ret = "Ready(Ok)"]
      [] OTHER ->
            IF m.chan.st = "empty" THEN [m EXCEPT !.ret = "Pending"]
            ELSE IF m.chan.st = "sent" /\ m.chan.val # None
            THEN PollLoop([m EXCEPT !.state = Connected(m.chan.val[1]),
                                    !.chan = NoChannel,
                                    !.path = Append(m.path, "Connected")], progress)
            ELSE IF m.chan.st = "sent"
            THEN PollLoop([m EXCEPT !.state = Disconnected,
                                    !.chan = NoChannel,
                                    !.path = Append(m.path, "Disconnected")], progress)
            ELSE [m EXCEPT !.ret = "Ready(Err(ServiceSocketChannelClosed))"]

(***************************************************************************)
(* The state machine: a built Op node, the caller's batch, and one call of *)
(* resolve (on a single record context) or of resolve_batch (on the batch).*)
(***************************************************************************)

VARIABLES
    op,        \* the Op node under evaluation (immutable once built)
    input,     \* the record contexts the caller put in the batch, in order
    ctx,       \* the BatchContext: the sequence of slots
    trace,     \* leaf evaluations made by the resolve_batch call
    single,    \* the resolve call made on a single record: [rec, res, trace]
    pc,        \* "build", "batched" (resolve_batch returned), "resolved"; "compile"
    parsed,    \* the nodes the parser hands to Op::new, or None
    built,     \* the Result<Op, Error> of the construction, or None
    tdef,      \* Some(TypeDef) once Op::type_def returned, or None
    state,     \* UnixService.state
    fut,       \* the connect_backoff future of Connecting
    chan,      \* the oneshot channel of Sending
    request,   \* the request future the last call returned
    ret,       \* what the last poll_ready or call returned
    path,      \* the states the last poll_ready assigned, in order
    established, \* connections established so far
    failedOn,  \* the sockets on which a send failed
    exclude,   \* Throttle.exclude: Some(condition) or None
    quota,     \* Throttle.quota: the burst size (the configured threshold)
    limiter,   \* the cells the rate limiter can still hand out for "default"
    input_rx,  \* the events the input stream has yet to deliver, then it ends
    consumed,  \* the events input_rx.next() has delivered, in order
    yielded,   \* the `output` vectors the stream has yielded, in order
    done       \* the loop has broken: the output stream has ended

dynVars == <<op, input, ctx, trace, single, pc>>

staticVars == <<parsed, built, tdef>>

unixVars == <<state, fut, chan, request, ret, path, established, failedOn>>

throttleVars == <<exclude, quota, limiter, input_rx, consumed, yielded, done>>

vars ==
    <<op, input, ctx, trace, single, pc, parsed, built, tdef,
      state, fut, chan, request, ret, path, established, failedOn,
      exclude, quota, limiter, input_rx, consumed, yielded, done>>

\* No throttle transform has been built.
NoThrottle ==
    /\ exclude = None
    /\ quota = None
    /\ limiter = None
    /\ input_rx = <<>>
    /\ consumed = <<>>
    /\ yielded = <<>>
    /\ done = FALSE

\* UnixService::new: no connection yet, nothing requested.
UnixServiceNew ==
    /\ state = Disconnected
    /\ fut = NoConnect
    /\ chan = NoChannel
    /\ request = NoRequest
    /\ ret = ""
    /\ path = <<>>
    /\ established = 0
    /\ failedOn = {}

\* The outcomes the lhs leaf of a flat node takes.  Op::new admits only
\* object-typed operands under Merge; And tells Null and false from true and
\* from values that do not coerce to a boolean; Or tells Null and false from
\* any other value; the remaining opcodes tell numbers from other values.
LhsOutcomes(opcode) ==
    CASE opcode = "Merge" -> {"obj1", "obj2", "err"}
      [] opcode = "And" -> {"null", "false", "true", "int", "err"}
      [] opcode = "Or" -> {"null", "false", "int", "err"}
      [] OTHER -> {"null", "int", "err"}

\* The outcomes the rhs leaf of a flat node takes.
RhsOutcomes(opcode) ==
    CASE opcode = "Merge" -> {"obj1", "obj2", "err"}
      [] opcode = "And" -> {"false", "true", "int", "err"}
      [] OTHER -> {"null", "int", "err"}

\* Leaf outcomes under a node with one nested operand: the first leaf has two
\* distinguishable values, the other two succeed or fail.
NestedOutcomes(n) == IF n = "a" THEN {"null", "int", "err"} ELSE {"int", "err"}

\* Leaf outcomes under the deep node: b, d and e succeed or fail.
DeepOutcomes(n) == IF n \in {"b", "d", "e"} THEN {"int", "err"} ELSE {"int"}

\* A record's leaf outcomes.
Outs(x, y, z) ==
    [n \in LeafNames |-> IF n = "a" THEN x ELSE IF n = "b" THEN y ELSE IF n = "c" THEN z ELSE "null"]

\* Opcodes of the outer and the inner node of a nested expression.
OuterOpcodes == {"Add", "Or"}

InnerOpcodes == {"Add", "Err"}

\* lhs <opcode> rhs over two leaves.
FlatOps == {Op(Leaf("a"), o, Leaf("b")) : o \in Opcodes}

\* a <o> (b <i> c) and (a <i> b) <o> c.
NestedOps ==
    {Op(Leaf("a"), o, Op(Leaf("b"), i, Leaf("c"))) : o \in OuterOpcodes, i \in InnerOpcodes}
        \cup
    {Op(Op(Leaf("a"), i, Leaf("b")), o, Leaf("c")) : o \in OuterOpcodes, i \in InnerOpcodes}

\* (a + (b + (c + d))) + e
DeepOp ==
    Op(Op(Leaf("a"), "Add", Op(Leaf("b"), "Add", Op(Leaf("c"), "Add", Leaf("d")))),
       "Add", Leaf("e"))

RECURSIVE Depth(_)
\* The number of operator nodes on the longest path of e.
Depth(e) ==
    IF e.type = "Leaf" THEN 0
    ELSE 1 + (IF Depth(e.lhs) >= Depth(e.rhs) THEN Depth(e.lhs) ELSE Depth(e.rhs))

\* The leaf outcomes a record may have under the node e.
RecordOutcomes(e) ==
    CASE Depth(e) = 1 ->
            {Outs(x, y, "null") : x \in LhsOutcomes(e.opcode), y \in RhsOutcomes(e.opcode)}
      [] Depth(e) = 2 ->
            {Outs(x, y, z) : x \in NestedOutcomes("a"), y \in NestedOutcomes("b"),
                             z \in NestedOutcomes("c")}
      [] OTHER ->
            {f \in [LeafNames -> {"int", "err"}] : \A n \in LeafNames : f[n] \in DeepOutcomes(n)}

NoCall == [rec |-> [id |-> 0, out |-> [n \in LeafNames |-> "null"]], res |-> Null, trace |-> <<>>]

Init ==
    /\ op \in FlatOps \cup NestedOps \cup {DeepOp}
    /\ input = <<>>
    /\ ctx = <<>>
    /\ trace = <<>>
    /\ single = NoCall
    /\ pc = "build"
    /\ parsed = None
    /\ built = None
    /\ tdef = None
    /\ UnixServiceNew
    /\ NoThrottle

\* The caller adds one record to the batch (BatchContext::new with a pending
\* result per record).
PushRecord(out) ==
    /\ pc = "build"
    /\ Len(input) < MaxBatch
    /\ LET rec == [id |-> Len(input) + 1, out |-> out] IN
        /\ input' = Append(input, rec)
        /\ ctx' = Append(ctx, [rec |-> rec, resolved |-> Null])
    /\ UNCHANGED <<op, trace, single, pc>>
    /\ UNCHANGED staticVars
    /\ UNCHANGED unixVars
    /\ UNCHANGED throttleVars

\* op.resolve_batch(&mut ctx)
ResolveBatch ==
    /\ pc = "build"
    /\ LET r == OpResolveBatch(op, ctx) IN
        /\ ctx' = r.ctx
        /\ trace' = r.trace
    /\ pc' = "batched"
    /\ UNCHANGED <<op, input, single>>
    /\ UNCHANGED staticVars
    /\ UNCHANGED unixVars
    /\ UNCHANGED throttleVars

\* op.resolve(&mut ctx) on one record context
Resolve(out) ==
    /\ pc = "build"
    /\ input = <<>>
    /\ LET rec == [id |-> 1, out |-> out]
           r == OpResolve(op, rec)
       IN single' = [rec |-> rec, res |-> r.res, trace |-> r.trace]
    /\ pc' = "resolved"
    /\ UNCHANGED <<op, input, ctx, trace>>
    /\ UNCHANGED staticVars
    /\ UNCHANGED unixVars
    /\ UNCHANGED throttleVars

Next ==
    \/ \E out \in RecordOutcomes(op) : PushRecord(out)
    \/ ResolveBatch
    \/ \E out \in RecordOutcomes(op) : Resolve(out)

Spec == Init /\ [][Next]_vars

(***************************************************************************)
(* The compile-time state machine: the compiler builds a node with Op::new *)
(* from parsed operands, or a crate-internal caller writes the struct      *)
(* literal; Op::type_def is then asked for the node's TypeDef.             *)
(***************************************************************************)

\* Literal values of the operands.
LitValues ==
    {Null, Boolean(TRUE), Integer(0), Integer(5), Float(0), Float(5), Bytes(0), Object({})}

\* Kind sets of the non-literal operands.
KindSets == {s \in SUBSET Kinds : Cardinality(s) \in 1..MaxKinds}

StaticLeaves ==
    {Literal(v) : v \in LitValues}
        \cup {Dynamic(TypeDef(s, f)) : s \in KindSets, f \in BOOLEAN}

\* Operands that are themselves binary-operator nodes.
OperandOpcodes == {"Lt", "Eq", "Err", "Div", "Add"}

OperandLeaves ==
    {Literal(Integer(5)), Literal(Bytes(0)), Dynamic(TypeDef({"Integer"}, TRUE))}

OperandOps == {Op(x, o, y) : x \in OperandLeaves, o \in OperandOpcodes, y \in OperandLeaves}

Operands == StaticLeaves \cup OperandOps

InitStatic ==
    /\ op = None
    /\ input = <<>>
    /\ ctx = <<>>
    /\ trace = <<>>
    /\ single = NoCall
    /\ pc = "compile"
    /\ parsed \in {Parse(l, o, r) : l \in Operands, o \in Opcodes, r \in Operands}
    /\ built = None
    /\ tdef = None
    /\ UnixServiceNew
    /\ NoThrottle

\* Op::new(lhs, opcode, rhs, state) on the parsed nodes
New ==
    /\ pc = "compile"
    /\ built = None
    /\ built' = OpNew(parsed.lhs, parsed.opcode, parsed.rhs)
    /\ UNCHANGED <<parsed, tdef>>
    /\ UNCHANGED dynVars
    /\ UNCHANGED unixVars
    /\ UNCHANGED throttleVars

\* Op { lhs, rhs, opcode }: the struct literal, written without Op::new from
\* the bare expressions (no spans are involved)
StructLiteral ==
    /\ pc = "compile"
    /\ built = None
    /\ built' = NewOk(Op(parsed.lhs.inner, parsed.opcode.inner, parsed.rhs.inner))
    /\ parsed' = None
    /\ UNCHANGED tdef
    /\ UNCHANGED dynVars
    /\ UNCHANGED unixVars
    /\ UNCHANGED throttleVars

\* op.type_def(state) on the node that was built
TypeDefCall ==
    /\ pc = "compile"
    /\ built # None
    /\ built.tag = "Ok"
    /\ tdef = None
    /\ tdef' = Some(OpTypeDef(built.op))
    /\ UNCHANGED <<parsed, built>>
    /\ UNCHANGED dynVars
    /\ UNCHANGED unixVars
    /\ UNCHANGED throttleVars

NextStatic ==
    \/ New
    \/ StructLiteral
    \/ TypeDefCall

SpecStatic == InitStatic /\ [][NextStatic]_vars


(***************************************************************************)
(* The UnixService state machine: the caller polls readiness and calls;    *)
(* the request future completes, fails or is dropped.                      *)
(***************************************************************************)

\* The buffers a caller sends.
Buffers == {<<"x">>, <<"x", "y">>}

InitUnix ==
    /\ op = None
    /\ input = <<>>
    /\ ctx = <<>>
    /\ trace = <<>>
    /\ single = NoCall
    /\ pc = "serve"
    /\ parsed = None
    /\ built = None
    /\ tdef = None
    /\ UnixServiceNew
    /\ NoThrottle

\* The service as poll_ready finds it.
Service ==
    [state |-> state, fut |-> fut, chan |-> chan, established |-> established,
     path |-> <<>>, ret |-> ""]

\* poll_ready treating a closed channel like a lost socket.
PollReady_ClosedReconnects(progress) ==
    /\ pc = "serve"
    /\ ret # CallPanic
    /\ progress = "connected" => established < MaxSockets
    /\ progress = "failed" => fut.attempts < MaxAttempts
    /\ IF chan = ClosedChannel
       THEN /\ state' = Disconnected
            /\ chan' = NoChannel
            /\ path' = <<"Disconnected">>
            /\ ret' = "Ready(Err(ServiceSocketChannelClosed))"
            /\ UNCHANGED <<fut, established>>
       ELSE /\ state' = PollLoop(Service, progress).state
            /\ fut' = PollLoop(Service, progress).fut
            /\ chan' = PollLoop(Service, progress).chan
            /\ established' = PollLoop(Service, progress).established
            /\ path' = PollLoop(Service, progress).path
            /\ ret' = PollLoop(Service, progress).ret
    /\ UNCHANGED <<request, failedOn>>
    /\ UNCHANGED dynVars
    /\ UNCHANGED staticVars
    /\ UNCHANGED throttleVars

\* poll_ready giving up on the first failed connect attempt.
PollReady_SurfacesConnectError(progress) ==
    /\ pc = "serve"
    /\ ret # CallPanic
    /\ progress = "connected" => established < MaxSockets
    /\ progress = "failed" => fut.attempts < MaxAttempts
    /\ IF progress = "failed" /\ state.tag \in {"Disconnected", "Connecting"}
       THEN /\ state' = Disconnected
            /\ fut' = NoConnect
            /\ path' = <<"Disconnected">>
            /\ ret' = "Ready(Err(FailedToConnect))"
            /\ UNCHANGED <<chan, established>>
       ELSE /\ state' = PollLoop(Service, progress).state
            /\ fut' = PollLoop(Service, progress).fut
            /\ chan' = PollLoop(Service, progress).chan
            /\ established' = PollLoop(Service, progress).established
            /\ path' = PollLoop(Service, progress).path
            /\ ret' = PollLoop(Service, progress).ret
    /\ UNCHANGED <<request, failedOn>>
    /\ UNCHANGED dynVars
    /\ UNCHANGED staticVars
    /\ UNCHANGED throttleVars

\* service.poll_ready(cx), the connect future making `progress` if polled
PollReady(progress) ==
    /\ pc = "serve"
    /\ ret # CallPanic
    /\ progress = "connected" => established < MaxSockets
    /\ progress = "failed" => fut.attempts < MaxAttempts
    /\ state' = PollLoop(Service, progress).state
    /\ fut' = PollLoop(Service, progress).fut
    /\ chan' = PollLoop(Service, progress).chan
    /\ established' = PollLoop(Service, progress).established
    /\ path' = PollLoop(Service, progress).path
    /\ ret' = PollLoop(Service, progress).ret
    /\ UNCHANGED <<request, failedOn>>
    /\ UNCHANGED dynVars
    /\ UNCHANGED staticVars
    /\ UNCHANGED throttleVars

\* service.call(buf) without the state check.
Call_Unchecked(buf) ==
    /\ pc = "serve"
    /\ ret # CallPanic
    /\ state' = Sending
    /\ chan' = EmptyChannel
    /\ request' = PendingRequest(state.socket, buf)
    /\ ret' = "future"
    /\ UNCHANGED <<fut, path, established, failedOn>>
    /\ UNCHANGED dynVars
    /\ UNCHANGED staticVars
    /\ UNCHANGED throttleVars

\* service.call(buf): the state becomes Sending(rx); a Connected socket moves
\* into the request future, any other state panics (tx is dropped unwinding).
Call(buf) ==
    /\ pc = "serve"
    /\ ret # CallPanic
    /\ state' = Sending
    /\ IF state.tag = "Connected"
       THEN /\ chan' = EmptyChannel
            /\ request' = PendingRequest(state.socket, buf)
            /\ ret' = "future"
       ELSE /\ chan' = ClosedChannel
            /\ request' = request
            /\ ret' = CallPanic
    /\ UNCHANGED <<fut, path, established, failedOn>>
    /\ UNCHANGED dynVars
    /\ UNCHANGED staticVars
    /\ UNCHANGED throttleVars

\* The request future keeping the socket from the service after an incomplete
\* send.
SendOk_IncompleteDropsSocket(sent) ==
    /\ pc = "serve"
    /\ ret # CallPanic
    /\ request.st = "pending"
    /\ request' = [request EXCEPT !.st = "done", !.result = "Ok", !.sent = sent,
                                  !.incomplete = (sent # Len(request.buf))]
    /\ chan' = IF sent # Len(request.buf) THEN SentChannel(None)
               ELSE SentChannel(Some(request.socket))
    /\ UNCHANGED <<state, fut, ret, path, established, failedOn>>
    /\ UNCHANGED dynVars
    /\ UNCHANGED staticVars
    /\ UNCHANGED throttleVars

\* The request future: socket.send(&buf) returned Ok(sent); the socket goes
\* back to the service.
SendOk(sent) ==
    /\ pc = "serve"
    /\ ret # CallPanic
    /\ request.st = "pending"
    /\ request' = [request EXCEPT !.st = "done", !.result = "Ok", !.sent = sent,
                                  !.incomplete = (sent # Len(request.buf))]
    /\ chan' = SentChannel(Some(request.socket))
    /\ UNCHANGED <<state, fut, ret, path, established, failedOn>>
    /\ UNCHANGED dynVars
    /\ UNCHANGED staticVars
    /\ UNCHANGED throttleVars

\* The request future reporting its socket back after a failed send.
SendErr_ReturnsSocket ==
    /\ pc = "serve"
    /\ ret # CallPanic
    /\ request.st = "pending"
    /\ request' = [request EXCEPT !.st = "done", !.result = "Err"]
    /\ chan' = SentChannel(Some(request.socket))
    /\ failedOn' = failedOn \cup {request.socket}
    /\ UNCHANGED <<state, fut, ret, path, established>>
    /\ UNCHANGED dynVars
    /\ UNCHANGED staticVars
    /\ UNCHANGED throttleVars

\* The request future: socket.send(&buf) returned an error; None goes back.
SendErr ==
    /\ pc = "serve"
    /\ ret # CallPanic
    /\ request.st = "pending"
    /\ request' = [request EXCEPT !.st = "done", !.result = "Err"]
    /\ chan' = SentChannel(None)
    /\ failedOn' = failedOn \cup {request.socket}
    /\ UNCHANGED <<state, fut, ret, path, established>>
    /\ UNCHANGED dynVars
    /\ UNCHANGED staticVars
    /\ UNCHANGED throttleVars

\* The caller drops the request future before it completed: the sender is
\* dropped without sending.
DropRequest ==
    /\ pc = "serve"
    /\ ret # CallPanic
    /\ request.st = "pending"
    /\ request' = [request EXCEPT !.st = "dropped"]
    /\ chan' = ClosedChannel
    /\ UNCHANGED <<state, fut, ret, path, established, failedOn>>
    /\ UNCHANGED dynVars
    /\ UNCHANGED staticVars
    /\ UNCHANGED throttleVars

NextUnix ==
    \/ \E progress \in ConnectProgress : PollReady(progress)
    \/ \E buf \in Buffers : Call(buf)
    \/ \E sent \in 0..Len(request.buf) : SendOk(sent)
    \/ SendErr
    \/ DropRequest

SpecUnix == InitUnix /\ [][NextUnix]_vars

\* The service driven by an executor that keeps polling it, with connect
\* attempts that do not fail forever: a poll_ready in which the connect
\* attempt succeeds is taken if it stays possible.
SpecUnixFair ==
    InitUnix /\ [][NextUnix]_vars /\ WF_vars(PollReady("connected"))

(***************************************************************************)
(* Throttle (src/transforms/throttle.rs): the stream that transform builds *)
(***************************************************************************)

MaxEvents == 3

MaxThreshold == 2

MaxTicks == 2

\* An event, known by its position in the input stream and by what the
\* exclude condition says of it.
Event(id, excluded) == [id |-> id, excluded |-> excluded]

\* The input streams: up to MaxEvents events, then the end of the stream.
InputStreams ==
    UNION {{[i \in 1..n |-> Event(i, flags[i])] : flags \in [1..n -> BOOLEAN]} :
             n \in 0..MaxEvents}

\* condition.check(&event)
check(condition, event) == event.excluded

\* limiter.check_key(&"default"): a cell is handed out if one is left.
check_key(cells) ==
    IF cells > 0 THEN [res |-> "Ok", cells |-> cells - 1]
    ELSE [res |-> "Err", cells |-> cells]

\* The `output` vector and the limiter after an event that went through
\* limiter.check_key.
Limited(event) ==
    IF check_key(limiter).res = "Ok"
    THEN [output |-> <<event>>, limiter |-> check_key(limiter).cells]
    ELSE [output |-> <<>>, limiter |-> check_key(limiter).cells]

\* The Some(event) arm with every event going through the limiter.
OnEvent_ExcludedIsLimited(event) == Limited(event)

\* The Some(event) arm of the select.
OnEvent(event) ==
    IF exclude # None
    THEN IF check(exclude[1], event)
         THEN [output |-> <<event>>, limiter |-> limiter]
         ELSE Limited(event)
    ELSE Limited(event)

\* The flush ticks taken so far: the iterations that received nothing.
Ticks == Len(yielded) - Len(consumed) - (IF done THEN 1 ELSE 0)

\* Throttle::new with a non-zero threshold, and transform called on an input
\* stream: a fresh limiter allows a burst of `threshold`.
InitThrottle ==
    /\ op = None
    /\ input = <<>>
    /\ ctx = <<>>
    /\ trace = <<>>
    /\ single = NoCall
    /\ pc = "throttle"
    /\ parsed = None
    /\ built = None
    /\ tdef = None
    /\ UnixServiceNew
    /\ exclude \in {None, Some("condition")}
    /\ quota \in 1..MaxThreshold
    /\ limiter = quota
    /\ input_rx \in InputStreams
    /\ consumed = <<>>
    /\ yielded = <<>>
    /\ done = FALSE

\* One iteration of the loop in which input_rx.next() completes: the stream
\* ended (done), or an event was received; `output` is yielded either way.
InputNext ==
    /\ pc = "throttle"
    /\ ~done
    /\ IF input_rx = <<>>
       THEN /\ done' = TRUE
            /\ yielded' = Append(yielded, <<>>)
            /\ UNCHANGED <<limiter, input_rx, consumed>>
       ELSE /\ done' = FALSE
            /\ yielded' = Append(yielded, OnEvent(Head(input_rx)).output)
            /\ limiter' = OnEvent(Head(input_rx)).limiter
            /\ input_rx' = Tail(input_rx)
            /\ consumed' = Append(consumed, Head(input_rx))
    /\ UNCHANGED <<exclude, quota>>
    /\ UNCHANGED dynVars
    /\ UNCHANGED staticVars
    /\ UNCHANGED unixVars

\* A flush tick that yields the last emitted event again.
FlushTick_Replays ==
    /\ pc = "throttle"
    /\ ~done
    /\ Ticks < MaxTicks
    /\ yielded' = Append(yielded, IF yielded = <<>> THEN <<>>
                                  ELSE yielded[Len(yielded)])
    /\ UNCHANGED <<exclude, quota, limiter, input_rx, consumed, done>>
    /\ UNCHANGED dynVars
    /\ UNCHANGED staticVars
    /\ UNCHANGED unixVars

\* One iteration of the loop in which flush_stream.tick() completes: the
\* empty `output` is yielded.
FlushTick ==
    /\ pc = "throttle"
    /\ ~done
    /\ Ticks < MaxTicks
    /\ yielded' = Append(yielded, <<>>)
    /\ UNCHANGED <<exclude, quota, limiter, input_rx, consumed, done>>
    /\ UNCHANGED dynVars
    /\ UNCHANGED staticVars
    /\ UNCHANGED unixVars

\* One period of the quota (window / threshold) passes: the limiter has one
\* more cell, up to the burst size.
Replenish ==
    /\ pc = "throttle"
    /\ ~done
    /\ limiter < quota
    /\ limiter' = limiter + 1
    /\ UNCHANGED <<exclude, quota, input_rx, consumed, yielded, done>>
    /\ UNCHANGED dynVars
    /\ UNCHANGED staticVars
    /\ UNCHANGED unixVars

NextThrottle ==
    \/ InputNext
    \/ FlushTick
    \/ Replenish

SpecThrottle == InitThrottle /\ [][NextThrottle]_vars

\* The stream polled by a runtime that keeps driving it: the select takes the
\* input branch whenever the flush interval has not elapsed, so an iteration
\* that polls input_rx.next() is eventually taken.
SpecThrottleFair ==
    InitThrottle /\ [][NextThrottle]_vars /\ WF_vars(InputNext)

(***************************************************************************)
(* Observations used by the properties                                     *)
(***************************************************************************)

TypeOK ==
    /\ pc \in {"build", "batched", "resolved"}
    /\ Len(input) <= MaxBatch

RECURSIVE LeavesOf(_)
\* The leaves of an expression tree.
LeavesOf(e) == IF e.type = "Leaf" THEN {e.name} ELSE LeavesOf(e.lhs) \cup LeavesOf(e.rhs)

\* How often the leaf n was evaluated on the record id.
EvalCount(tr, n, id) == Cardinality({k \in 1..Len(tr) : tr[k] = <<n, id>>})

\* Some leaf of e was evaluated on the record id.
Evaluated(tr, e, id) == \E k \in 1..Len(tr) : tr[k][2] = id /\ tr[k][1] \in LeavesOf(e)

\* The results of the slots that carry the record id, in slot order.
ResultsOf(c, id) ==
    LET mine == SelectSeq(c, LAMBDA slot : slot.rec.id = id)
    IN [k \in 1..Len(mine) |-> mine[k].resolved]

\* The batch the caller builds from the records recs.
BatchOf(recs) == [k \in 1..Len(recs) |-> [rec |-> recs[k], resolved |-> Null]]

\* What single-record resolve returns on the i-th record of the batch.
Alone(i) == OpResolve(op, input[i]).res

IsFlat == Depth(op) = 1

(***************************************************************************)
(* Properties of resolve_batch                                             *)
(***************************************************************************)

\* C1: after resolve_batch, for every opcode and every index i, the result
\* held in slot i equals what single-record resolve returns on record i.
C1_BatchEqualsResolve ==
    pc = "batched" =>
        \A i \in 1..Len(input) : i <= Len(ctx) /\ ctx[i].resolved = Alone(i)

\* C2: for every non-short-circuit opcode the batch after resolve_batch lists
\* the records in input order: slot i carries record i and record i's result.
C2_InputOrderKept ==
    (pc = "batched" /\ op.opcode \notin ShortCircuitOpcodes) =>
        /\ Len(ctx) = Len(input)
        /\ \A i \in 1..Len(input) : ctx[i].rec = input[i] /\ ctx[i].resolved = Alone(i)

\* C3: on a batch of n copies of one record, resolve_batch yields exactly n
\* results, all equal to resolve of that record.
C3_CopiesYieldIdenticalResults ==
    (pc = "batched" /\ Len(input) >= 2 /\ \A i \in 1..Len(input) : input[i].out = input[1].out) =>
        /\ Len(ctx) = Len(input)
        /\ \A j \in 1..Len(ctx) : ctx[j].resolved = Alone(1)

\* C4: a failure is confined to its own slot: the results a record ends with
\* do not change when the outcomes of another record of the batch change, and
\* a record that does not fail on its own ends with its normal result.
C4_FailureConfinedToSlot ==
    pc = "batched" =>
        \A i \in 1..Len(input) :
            /\ \A j \in 1..Len(input), out \in RecordOutcomes(op) :
                    j # i =>
                        ResultsOf(OpResolveBatch(op,
                                    BatchOf([input EXCEPT ![j] = [id |-> j, out |-> out]])).ctx, i)
                            = ResultsOf(ctx, i)
            /\ is_ok(Alone(i)) => ResultsOf(ctx, i) = <<Alone(i)>>

\* C5: resolve_batch keeps every record exactly once: the batch has as many
\* slots after the call as before, and each record is carried by one slot.
C5_EveryRecordExactlyOnce ==
    pc = "batched" =>
        /\ Len(ctx) = Len(input)
        /\ \A i \in 1..Len(input) : Cardinality({j \in 1..Len(ctx) : ctx[j].rec.id = i}) = 1

\* C6: during one resolve_batch call every sub-expression is evaluated at
\* most once on every record.
C6_EvaluatedAtMostOnce ==
    pc = "batched" =>
        \A n \in LeafNames, i \in 1..Len(input) : EvalCount(trace, n, i) <= 1

(***************************************************************************)
(* Properties of the short-circuit opcodes and of resolve                  *)
(***************************************************************************)

\* What the operands yield on the record rec when evaluated on their own.
LhsAlone(rec) == ExprResolve(op.lhs, rec).res

RhsAlone(rec) == ExprResolve(op.rhs, rec).res

\* Every evaluation the trace tr makes of the lhs on the record id comes
\* before every evaluation it makes of the rhs on that record.
LhsBeforeRhs(tr, id) ==
    \A j, k \in 1..Len(tr) :
        (tr[j][2] = id /\ tr[k][2] = id
            /\ tr[j][1] \in LeavesOf(op.lhs) /\ tr[k][1] \in LeavesOf(op.rhs)) => j < k

\* `??` on one record: lhs's value if lhs succeeds, rhs untouched; else
\* exactly rhs's result.
ErrContract(rec, res, tr) ==
    /\ Evaluated(tr, op.lhs, rec.id)
    /\ IF is_ok(LhsAlone(rec))
       THEN res = LhsAlone(rec) /\ ~Evaluated(tr, op.rhs, rec.id)
       ELSE res = RhsAlone(rec) /\ Evaluated(tr, op.rhs, rec.id)

\* C7: for opcode Err resolve returns lhs's value when lhs succeeds, without
\* evaluating rhs; when lhs fails it evaluates rhs and returns exactly rhs's
\* result, success or failure.  The per-record loop of resolve_batch does
\* the same on every slot.
C7_ErrCoalesce ==
    /\ (pc = "resolved" /\ op.opcode = "Err") =>
            ErrContract(single.rec, single.res, single.trace)
    /\ (pc = "batched" /\ op.opcode = "Err") =>
            \A i \in 1..Len(input) :
                i <= Len(ctx) /\ ErrContract(input[i], ctx[i].resolved, trace)

\* resolve of `??` ran on a record whose lhs and rhs both fail.
C7_Witness ==
    /\ pc = "resolved"
    /\ op.opcode = "Err"
    /\ is_err(LhsAlone(single.rec))
    /\ is_err(RhsAlone(single.rec))
    /\ single.res = RhsAlone(single.rec)
    /\ Len(single.trace) = 2

\* `||` on one record: an lhs failure is returned as is; Null or false falls
\* back to rhs's result; any other value is returned unchanged.
OrContract(rec, res, tr) ==
    LET l == LhsAlone(rec) IN
    /\ Evaluated(tr, op.lhs, rec.id)
    /\ IF is_err(l) THEN res = l /\ ~Evaluated(tr, op.rhs, rec.id)
       ELSE IF l = Null \/ l = Boolean(FALSE)
            THEN res = RhsAlone(rec) /\ Evaluated(tr, op.rhs, rec.id)
            ELSE res = l /\ ~Evaluated(tr, op.rhs, rec.id)

\* C8: for opcode Or resolve propagates an lhs failure without evaluating
\* rhs; on lhs Null or false it evaluates rhs and returns rhs's result; on
\* any other lhs value it returns that value and does not evaluate rhs.
C8_OrFallback ==
    /\ (pc = "resolved" /\ op.opcode = "Or") =>
            OrContract(single.rec, single.res, single.trace)
    /\ (pc = "batched" /\ op.opcode = "Or") =>
            \A i \in 1..Len(input) :
                i <= Len(ctx) /\ OrContract(input[i], ctx[i].resolved, trace)

\* resolve of `||` ran on a record whose lhs is false and returned rhs's value.
C8_Witness ==
    /\ pc = "resolved"
    /\ op.opcode = "Or"
    /\ LhsAlone(single.rec) = Boolean(FALSE)
    /\ single.res = RhsAlone(single.rec)
    /\ single.res = Integer(1)
    /\ Evaluated(single.trace, op.rhs, single.rec.id)

CoercesToBoolean(val) == val.k \in {"Null", "Boolean"}

IsTrue(val) == val.k = "Boolean" /\ val.v = 1

\* `&&` on one record.
AndContract(rec, res, tr) ==
    LET l == LhsAlone(rec)
        r == RhsAlone(rec)
    IN
    /\ Evaluated(tr, op.lhs, rec.id)
    /\ IF is_err(l) THEN res = l /\ ~Evaluated(tr, op.rhs, rec.id)
       ELSE IF l = Null \/ l = Boolean(FALSE)
            THEN res = Boolean(FALSE) /\ ~Evaluated(tr, op.rhs, rec.id)
            ELSE /\ Evaluated(tr, op.rhs, rec.id)
                 /\ IF is_err(r) THEN res = r
                    ELSE IF CoercesToBoolean(l) /\ CoercesToBoolean(r)
                         THEN res = Boolean(IsTrue(l) /\ IsTrue(r))
                         ELSE is_err(res) /\ res.k = "And"

\* C9: for opcode And resolve propagates an lhs failure without evaluating
\* rhs; on lhs Null or false it returns false without evaluating rhs;
\* otherwise it evaluates rhs and returns the boolean AND of the two values,
\* failing if rhs fails or if a value does not coerce to a boolean.
C9_AndShortCircuit ==
    /\ (pc = "resolved" /\ op.opcode = "And") =>
            AndContract(single.rec, single.res, single.trace)
    /\ (pc = "batched" /\ op.opcode = "And") =>
            \A i \in 1..Len(input) :
                i <= Len(ctx) /\ AndContract(input[i], ctx[i].resolved, trace)

\* resolve of `&&` ran on a record whose operands are both true.
C9_Witness ==
    /\ pc = "resolved"
    /\ op.opcode = "And"
    /\ LhsAlone(single.rec) = Boolean(TRUE)
    /\ RhsAlone(single.rec) = Boolean(TRUE)
    /\ single.res = Boolean(TRUE)
    /\ Evaluated(single.trace, op.rhs, single.rec.id)

\* The combinator the language assigns to each non-short-circuit opcode.
OpcodeCombinator(opcode, l, r) ==
    CASE opcode = "Add" -> try_add(l, r)
      [] opcode = "Sub" -> try_sub(l, r)
      [] opcode = "Mul" -> try_mul(l, r)
      [] opcode = "Div" -> try_div(l, r)
      [] opcode = "Rem" -> try_rem(l, r)
      [] opcode = "Eq" -> Boolean(eq_lossy(l, r))
      [] opcode = "Ne" -> Boolean(~eq_lossy(l, r))
      [] opcode = "Lt" -> try_lt(l, r)
      [] opcode = "Le" -> try_le(l, r)
      [] opcode = "Gt" -> try_gt(l, r)
      [] opcode = "Ge" -> try_ge(l, r)
      [] opcode = "Merge" -> try_merge(l, r)

\* C10: for every opcode other than Err, Or and And resolve evaluates lhs
\* before rhs: an lhs failure is returned without evaluating rhs, else an rhs
\* failure is returned, and only when both succeed the opcode's combinator
\* applied to (lhs value, rhs value) is returned.
C10_BinaryPropagatesThenCombines ==
    (pc = "resolved" /\ op.opcode \notin ShortCircuitOpcodes) =>
        LET l == LhsAlone(single.rec)
            r == RhsAlone(single.rec)
            id == single.rec.id
        IN
        /\ Evaluated(single.trace, op.lhs, id)
        /\ LhsBeforeRhs(single.trace, id)
        /\ IF is_err(l) THEN single.res = l /\ ~Evaluated(single.trace, op.rhs, id)
           ELSE /\ Evaluated(single.trace, op.rhs, id)
                /\ IF is_err(r) THEN single.res = r
                   ELSE single.res = OpcodeCombinator(op.opcode, l, r)

\* resolve of a non-short-circuit opcode ran on a record whose operands both
\* succeed with values the combinator rejects in this order only.
C10_Witness ==
    /\ pc = "resolved"
    /\ op.opcode = "Add"
    /\ LhsAlone(single.rec) = Null
    /\ RhsAlone(single.rec) = Integer(1)
    /\ single.res = ValueError("Add", Null, Integer(1))
    /\ single.trace = << <<"a", 1>>, <<"b", 1>> >>


(***************************************************************************)
(* Construction: Op::new                                                   *)
(***************************************************************************)

\* Op::new returned on the parsed nodes.
NewReturned == parsed # None /\ built # None

\* The lhs operand is a comparison node under a comparison opcode.
LhsIsComparison ==
    /\ parsed.opcode.inner \in {"Eq", "Ne", "Lt", "Le", "Gt", "Ge"}
    /\ parsed.lhs.inner.type = "Op"
    /\ parsed.lhs.inner.opcode \in {"Eq", "Ne", "Lt", "Le", "Gt", "Ge"}

\* C11 (as stated): a comparison whose lhs is itself a comparison node is
\* rejected with ChainedComparison, and the span the error carries is the
\* span of the inner (lhs) comparison.
C11_ChainedComparisonInnerSpan ==
    (NewReturned /\ LhsIsComparison) => built = ChainedComparison(parsed.lhs.span)

\* C11 (amended): a comparison whose lhs is itself a comparison node is
\* rejected with ChainedComparison, and the span the error carries is the
\* span of the outer operator.
C11_ChainedComparisonOperatorSpan ==
    (NewReturned /\ LhsIsComparison) => built = ChainedComparison(parsed.opcode.span)

C11_Witness ==
    /\ NewReturned
    /\ LhsIsComparison
    /\ built.error = "ChainedComparison"
    /\ parsed.opcode.span # parsed.lhs.span

\* C12: under Err, Op::new fails with UnnecessaryCoalesce, carrying the lhs
\* span, the rhs span and the operator span, exactly when the lhs TypeDef is
\* infallible; with a fallible lhs the construction succeeds.
C12_UnnecessaryCoalesce ==
    (NewReturned /\ parsed.opcode.inner = "Err") =>
        IF ~ExprTypeDef(parsed.lhs.inner).fallible
        THEN built = UnnecessaryCoalesce(parsed.lhs.span, parsed.rhs.span, parsed.opcode.span)
        ELSE built = NewOk(Op(parsed.lhs.inner, "Err", parsed.rhs.inner))

C12_Witness ==
    /\ NewReturned
    /\ parsed.opcode.inner = "Err"
    /\ built.error = "UnnecessaryCoalesce"
    /\ built.lhs_span # built.rhs_span
    /\ built.op_span # built.lhs_span

\* The kind set of the operand is exactly Object.
ExactlyObject(e) == ExprTypeDef(e).kind = {"Object"}

\* C13: under Merge, Op::new fails with MergeNonObjects exactly when an
\* operand's kind set is not exactly Object; the error carries lhs_span iff
\* the lhs is not Object-typed and rhs_span iff the rhs is not Object-typed;
\* with two Object operands the construction succeeds.
C13_MergeNonObjects ==
    (NewReturned /\ parsed.opcode.inner = "Merge") =>
        IF ExactlyObject(parsed.lhs.inner) /\ ExactlyObject(parsed.rhs.inner)
        THEN built = NewOk(Op(parsed.lhs.inner, "Merge", parsed.rhs.inner))
        ELSE /\ built.error = "MergeNonObjects"
             /\ built.lhs_span =
                    (IF ExactlyObject(parsed.lhs.inner) THEN None ELSE Some(parsed.lhs.span))
             /\ built.rhs_span =
                    (IF ExactlyObject(parsed.rhs.inner) THEN None ELSE Some(parsed.rhs.span))

C13_Witness ==
    /\ NewReturned
    /\ parsed.opcode.inner = "Merge"
    /\ built.error = "MergeNonObjects"
    /\ built.lhs_span = None
    /\ built.rhs_span # None


(***************************************************************************)
(* Type inference: Op::type_def                                            *)
(***************************************************************************)

\* Op::type_def returned on a node with the opcode o.
TypeDefReturned(o) == built # None /\ tdef # None /\ built.op.opcode = o

\* The TypeDef the call returned, and the TypeDefs of the two operands.
Inferred == tdef[1]

LhsDef == ExprTypeDef(built.op.lhs)

RhsDef == ExprTypeDef(built.op.rhs)

\* The rhs operand is a literal of the kind k.
RhsIsLiteral(k) == built.op.rhs.type = "Literal" /\ built.op.rhs.value.k = k

\* The rhs operand is a literal nonzero integer or a literal normal float.
RhsIsNonZeroLiteral ==
    \/ RhsIsLiteral("Integer") /\ built.op.rhs.value.v # 0
    \/ RhsIsLiteral("Float") /\ is_normal(built.op.rhs.value.v)

\* The lhs kind set is exactly Integer or exactly Float.
LhsIsOneNumericKind == LhsDef.kind = {"Integer"} \/ LhsDef.kind = {"Float"}

\* C14 (as stated): the TypeDef of Div has kind Float and is infallible
\* exactly when rhs is a literal nonzero integer or normal float and the lhs
\* kinds are a subset of {Integer, Float}.
C14_DivInfallibleForNumericSubset ==
    TypeDefReturned("Div") =>
        /\ Inferred.kind = {"Float"}
        /\ ~Inferred.fallible <=>
                (RhsIsNonZeroLiteral /\ LhsDef.kind \subseteq {"Integer", "Float"})

\* C14 (amended): the TypeDef of Div has kind Float and is infallible exactly
\* when rhs is a literal nonzero integer or normal float and the lhs kind set
\* is exactly Integer or exactly Float.
C14_DivInfallibleForOneNumericKind ==
    TypeDefReturned("Div") =>
        /\ Inferred.kind = {"Float"}
        /\ ~Inferred.fallible <=> (RhsIsNonZeroLiteral /\ LhsIsOneNumericKind)

C14_Witness ==
    /\ TypeDefReturned("Div")
    /\ RhsIsNonZeroLiteral
    /\ LhsDef.kind = {"Integer", "Float"}
    /\ Inferred = TypeDef({"Float"}, TRUE)

\* C15 (as stated): the TypeDef of Rem with a literal integer rhs has kind
\* Integer, infallible when the literal is nonzero and fallible when it is
\* zero.
C15_RemIntegerLiteral ==
    (TypeDefReturned("Rem") /\ RhsIsLiteral("Integer")) =>
        Inferred = TypeDef({"Integer"}, built.op.rhs.value.v = 0)

\* C15 (amended): the TypeDef of Rem with a literal integer rhs and an lhs
\* that is exactly Integer or exactly Float has kind Integer, infallible when
\* the literal is nonzero and fallible when it is zero; with any other lhs it
\* is {Integer, Float} and fallible.
C15_RemIntegerLiteralNumericLhs ==
    (TypeDefReturned("Rem") /\ RhsIsLiteral("Integer")) =>
        IF LhsIsOneNumericKind
        THEN Inferred = TypeDef({"Integer"}, built.op.rhs.value.v = 0)
        ELSE Inferred = TypeDef({"Integer", "Float"}, TRUE)

C15_Witness ==
    /\ TypeDefReturned("Rem")
    /\ RhsIsLiteral("Integer")
    /\ built.op.rhs.value.v # 0
    /\ LhsDef.kind = {"Bytes"}
    /\ Inferred = TypeDef({"Integer", "Float"}, TRUE)

\* C16 (as stated): the TypeDef of Rem with a literal float rhs has kind
\* Float, infallible when the literal is normal and fallible when it is not;
\* when rhs is not a literal integer or float it is {Integer, Float} and
\* fallible.
C16_RemFloatLiteral ==
    TypeDefReturned("Rem") =>
        /\ RhsIsLiteral("Float") =>
                Inferred = TypeDef({"Float"}, ~is_normal(built.op.rhs.value.v))
        /\ ~(RhsIsLiteral("Float") \/ RhsIsLiteral("Integer")) =>
                Inferred = TypeDef({"Integer", "Float"}, TRUE)

\* C16 (amended): the TypeDef of Rem with a literal float rhs and an lhs that
\* is exactly Integer or exactly Float has kind Float, infallible when the
\* literal is normal and fallible when it is not; with any other lhs, or
\* when rhs is not a literal integer or float, it is {Integer, Float} and
\* fallible.
C16_RemFloatLiteralNumericLhs ==
    TypeDefReturned("Rem") =>
        /\ (RhsIsLiteral("Float") /\ LhsIsOneNumericKind) =>
                Inferred = TypeDef({"Float"}, ~is_normal(built.op.rhs.value.v))
        /\ (RhsIsLiteral("Float") /\ ~LhsIsOneNumericKind) =>
                Inferred = TypeDef({"Integer", "Float"}, TRUE)
        /\ ~(RhsIsLiteral("Float") \/ RhsIsLiteral("Integer")) =>
                Inferred = TypeDef({"Integer", "Float"}, TRUE)

C16_Witness ==
    /\ TypeDefReturned("Rem")
    /\ RhsIsLiteral("Float")
    /\ is_normal(built.op.rhs.value.v)
    /\ LhsDef.kind = {"Integer", "Float"}
    /\ Inferred = TypeDef({"Integer", "Float"}, TRUE)

\* C17: the TypeDef of Or, by the first case that applies: lhs exactly Null
\* gives the rhs TypeDef; lhs with neither Null nor Boolean gives the lhs
\* TypeDef; lhs not exactly Boolean gives (lhs kinds minus Null) union rhs
\* kinds; otherwise lhs kinds union rhs kinds; in the last two cases the
\* result is fallible iff an operand is.
C17_OrCases ==
    TypeDefReturned("Or") =>
        IF LhsDef.kind = {"Null"}
        THEN Inferred = RhsDef
        ELSE IF "Null" \notin LhsDef.kind /\ "Boolean" \notin LhsDef.kind
        THEN Inferred = LhsDef
        ELSE IF LhsDef.kind # {"Boolean"}
        THEN Inferred = TypeDef((LhsDef.kind \ {"Null"}) \cup RhsDef.kind,
                                LhsDef.fallible \/ RhsDef.fallible)
        ELSE Inferred = TypeDef(LhsDef.kind \cup RhsDef.kind,
                                LhsDef.fallible \/ RhsDef.fallible)

C17_Witness ==
    /\ TypeDefReturned("Or")
    /\ LhsDef = TypeDef({"Null", "Bytes"}, FALSE)
    /\ RhsDef = TypeDef({"Bytes"}, FALSE)
    /\ Inferred = TypeDef({"Bytes"}, FALSE)

\* C18: the TypeDef of And has kind exactly Boolean; when lhs is exactly
\* Null it is fallible unless the rhs kinds are within {Null, Boolean} and rhs
\* is infallible; otherwise it is fallible unless both operands' kinds are
\* within {Null, Boolean} and both operands are infallible.
C18_AndBoolean ==
    TypeDefReturned("And") =>
        /\ Inferred.kind = {"Boolean"}
        /\ Inferred.fallible <=>
                IF LhsDef.kind = {"Null"}
                THEN RhsDef.fallible \/ ~(RhsDef.kind \subseteq {"Null", "Boolean"})
                ELSE \/ LhsDef.fallible
                     \/ RhsDef.fallible
                     \/ ~(LhsDef.kind \subseteq {"Null", "Boolean"})
                     \/ ~(RhsDef.kind \subseteq {"Null", "Boolean"})

C18_Witness ==
    /\ TypeDefReturned("And")
    /\ LhsDef.kind = {"Null"}
    /\ RhsDef = TypeDef({"Bytes"}, FALSE)
    /\ Inferred = TypeDef({"Boolean"}, TRUE)

\* The operand e is `x ?? y` over two leaves.
IsErrOverLeaves(e) == e.type = "Op" /\ e.opcode = "Err" /\ e.lhs.type # "Op" /\ e.rhs.type # "Op"

\* C19: the TypeDef of Err has the union of the operands' kinds; it is
\* infallible whenever rhs is infallible, whatever lhs is, and otherwise
\* fallible iff an operand is; a chain (x ?? y) ?? z or x ?? (y ?? z) over
\* leaves has the union of the three kind sets and the fallibility of the
\* last fallback.
C19_ErrUnion ==
    TypeDefReturned("Err") =>
        /\ Inferred.kind = LhsDef.kind \cup RhsDef.kind
        /\ Inferred.fallible <=> (RhsDef.fallible /\ (LhsDef.fallible \/ RhsDef.fallible))
        /\ (IsErrOverLeaves(built.op.lhs) /\ built.op.rhs.type # "Op") =>
                Inferred = TypeDef(built.op.lhs.lhs.def.kind \cup built.op.lhs.rhs.def.kind
                                        \cup built.op.rhs.def.kind,
                                   built.op.rhs.def.fallible)
        /\ (built.op.lhs.type # "Op" /\ IsErrOverLeaves(built.op.rhs)) =>
                Inferred = TypeDef(built.op.lhs.def.kind \cup built.op.rhs.lhs.def.kind
                                        \cup built.op.rhs.rhs.def.kind,
                                   built.op.rhs.rhs.def.fallible)

C19_Witness ==
    /\ TypeDefReturned("Err")
    /\ IsErrOverLeaves(built.op.lhs)
    /\ LhsDef.fallible
    /\ ~RhsDef.fallible
    /\ ~Inferred.fallible

\* C20: the TypeDef of Gt, Ge, Lt and Le has kind Boolean; when both
\* operands are exactly Bytes it is fallible iff an operand is; otherwise it
\* is fallible unless both operands' kinds are within {Integer, Float} and
\* both operands are infallible.
C20_OrderingBoolean ==
    \A o \in {"Gt", "Ge", "Lt", "Le"} :
        TypeDefReturned(o) =>
            /\ Inferred.kind = {"Boolean"}
            /\ Inferred.fallible <=>
                    IF LhsDef.kind = {"Bytes"} /\ RhsDef.kind = {"Bytes"}
                    THEN LhsDef.fallible \/ RhsDef.fallible
                    ELSE \/ LhsDef.fallible
                         \/ RhsDef.fallible
                         \/ ~(LhsDef.kind \subseteq {"Integer", "Float"})
                         \/ ~(RhsDef.kind \subseteq {"Integer", "Float"})

C20_Witness ==
    /\ TypeDefReturned("Ge")
    /\ LhsDef = TypeDef({"Bytes"}, FALSE)
    /\ RhsDef = TypeDef({"Bytes"}, FALSE)
    /\ Inferred = TypeDef({"Boolean"}, FALSE)


\* C21: the TypeDef of Eq and Ne has kind exactly Boolean whatever the
\* operand kinds, and is fallible iff an operand's TypeDef is.
C21_EqualityBoolean ==
    \A o \in {"Eq", "Ne"} :
        TypeDefReturned(o) =>
            Inferred = TypeDef({"Boolean"}, LhsDef.fallible \/ RhsDef.fallible)

C21_Witness ==
    /\ TypeDefReturned("Ne")
    /\ LhsDef = TypeDef({"Null"}, FALSE)
    /\ RhsDef = TypeDef({"Bytes"}, FALSE)
    /\ Inferred = TypeDef({"Boolean"}, FALSE)

\* An operand's kind set is exactly Bytes.
EitherIsBytes == LhsDef.kind = {"Bytes"} \/ RhsDef.kind = {"Bytes"}

\* An operand's kind set is exactly Float.
EitherIsFloat == LhsDef.kind = {"Float"} \/ RhsDef.kind = {"Float"}

\* Both operands' kind sets are exactly Integer.
BothAreInteger == LhsDef.kind = {"Integer"} /\ RhsDef.kind = {"Integer"}

\* An operand is fallible or has a kind outside `allowed`.
FallibleUnlessWithin(allowed) ==
    \/ LhsDef.fallible
    \/ RhsDef.fallible
    \/ ~(LhsDef.kind \subseteq allowed)
    \/ ~(RhsDef.kind \subseteq allowed)

\* C22: the TypeDef of Add with an operand that is exactly Bytes has kind
\* Bytes and is fallible unless both operands' kinds are within
\* {Bytes, Null} (and both are infallible); the rule is taken before the
\* Float and Integer rules.
C22_AddBytes ==
    (TypeDefReturned("Add") /\ EitherIsBytes) =>
        Inferred = TypeDef({"Bytes"}, FallibleUnlessWithin({"Bytes", "Null"}))

C22_Witness ==
    /\ TypeDefReturned("Add")
    /\ LhsDef = TypeDef({"Bytes"}, FALSE)
    /\ RhsDef = TypeDef({"Float"}, FALSE)
    /\ Inferred = TypeDef({"Bytes"}, TRUE)

\* C23: for Add, Sub and Mul outside the Add-Bytes rule: an operand that is
\* exactly Float gives Float, fallible unless both operands' kinds are
\* within {Integer, Float} (and both are infallible); else two operands that
\* are exactly Integer give Integer, fallible iff an operand is.
C23_ArithmeticFloatThenInteger ==
    \A o \in {"Add", "Sub", "Mul"} :
        (TypeDefReturned(o) /\ ~(o = "Add" /\ EitherIsBytes)) =>
            /\ EitherIsFloat =>
                    Inferred = TypeDef({"Float"}, FallibleUnlessWithin({"Integer", "Float"}))
            /\ (~EitherIsFloat /\ BothAreInteger) =>
                    Inferred = TypeDef({"Integer"}, LhsDef.fallible \/ RhsDef.fallible)

C23_Witness ==
    /\ TypeDefReturned("Mul")
    /\ LhsDef = TypeDef({"Bytes"}, FALSE)
    /\ RhsDef = TypeDef({"Float"}, FALSE)
    /\ Inferred = TypeDef({"Float"}, TRUE)

\* One operand is exactly Bytes and the other exactly Integer.
BytesTimesInteger ==
    \/ LhsDef.kind = {"Bytes"} /\ RhsDef.kind = {"Integer"}
    \/ LhsDef.kind = {"Integer"} /\ RhsDef.kind = {"Bytes"}

\* C24: the TypeDef of Mul over exactly Bytes and exactly Integer, in either
\* order, has kind Bytes and is fallible iff an operand is.
C24_MulBytesInteger ==
    (TypeDefReturned("Mul") /\ BytesTimesInteger) =>
        Inferred = TypeDef({"Bytes"}, LhsDef.fallible \/ RhsDef.fallible)

C24_Witness ==
    /\ TypeDefReturned("Mul")
    /\ LhsDef = TypeDef({"Integer"}, FALSE)
    /\ RhsDef = TypeDef({"Bytes"}, FALSE)
    /\ Inferred = TypeDef({"Bytes"}, FALSE)

\* C25: an operand combination no earlier rule matches is always fallible,
\* with kind {Bytes, Integer, Float} under Add and Mul and {Integer, Float}
\* under Sub, whatever the operand kinds.
C25_UnmatchedIsFallible ==
    /\ (TypeDefReturned("Add") /\ ~EitherIsBytes /\ ~EitherIsFloat /\ ~BothAreInteger) =>
            Inferred = TypeDef({"Bytes", "Integer", "Float"}, TRUE)
    /\ (TypeDefReturned("Mul") /\ ~EitherIsFloat /\ ~BothAreInteger /\ ~BytesTimesInteger) =>
            Inferred = TypeDef({"Bytes", "Integer", "Float"}, TRUE)
    /\ (TypeDefReturned("Sub") /\ ~EitherIsFloat /\ ~BothAreInteger) =>
            Inferred = TypeDef({"Integer", "Float"}, TRUE)

C25_Witness ==
    /\ TypeDefReturned("Add")
    /\ LhsDef = TypeDef({"Null"}, FALSE)
    /\ RhsDef = TypeDef({"Null"}, FALSE)
    /\ Inferred = TypeDef({"Bytes", "Integer", "Float"}, TRUE)

\* C29: for every opcode except Err, a node whose lhs TypeDef is fallible has
\* a fallible TypeDef.
C29_LhsFallibleImpliesFallible ==
    (built # None /\ tdef # None /\ built.op.opcode # "Err" /\ LhsDef.fallible) =>
        Inferred.fallible


(***************************************************************************)
(* The partitioning path of resolve_batch (non-short-circuit opcodes)      *)
(***************************************************************************)

\* resolve_batch returned on a node with a non-short-circuit opcode.
PartitionedBatch == pc = "batched" /\ op.opcode \notin ShortCircuitOpcodes

\* Every slot that carries the record id holds the result res, and there is
\* such a slot.
EndsWith(id, res) ==
    /\ \E j \in 1..Len(ctx) : ctx[j].rec.id = id
    /\ \A j \in 1..Len(ctx) : ctx[j].rec.id = id => ctx[j].resolved = res

\* C26: under a non-short-circuit opcode resolve_batch evaluates rhs only on
\* records whose lhs succeeded: a record whose lhs failed never has rhs
\* evaluated and ends with its own lhs error.
C26_RhsOnlyAfterLhsSuccess ==
    PartitionedBatch =>
        \A i \in 1..Len(input) :
            is_err(LhsAlone(input[i])) =>
                /\ ~Evaluated(trace, op.rhs, i)
                /\ EndsWith(i, LhsAlone(input[i]))

\* C27: under a non-short-circuit opcode a record whose lhs succeeded and
\* whose rhs failed ends with the rhs error: no success value is left as
\* that record's result.
C27_RhsErrorIsFinal ==
    PartitionedBatch =>
        \A i \in 1..Len(input) :
            (is_ok(LhsAlone(input[i])) /\ is_err(RhsAlone(input[i]))) =>
                EndsWith(i, RhsAlone(input[i]))

\* C28: under a non-short-circuit opcode a record whose lhs and rhs both
\* succeeded ends with the opcode's combinator applied to that record's lhs
\* value and that record's rhs value, whatever other records failed.
C28_CombinesOwnOperands ==
    PartitionedBatch =>
        \A i \in 1..Len(input) :
            (is_ok(LhsAlone(input[i])) /\ is_ok(RhsAlone(input[i]))) =>
                EndsWith(i, OpcodeCombinator(op.opcode, LhsAlone(input[i]), RhsAlone(input[i])))


(***************************************************************************)
(* Properties of UnixService                                               *)
(***************************************************************************)

\* A step in which call returned: it panicked, or a new request future is
\* pending.
CallReturned ==
    /\ ret # CallPanic
    /\ \/ ret' = CallPanic
       \/ ret' = "future" /\ request.st # "pending" /\ request'.st = "pending"

\* C30: whenever poll_ready returned Ready(Ok(())) the state is Connected;
\* call in Connected moves the state to Sending and hands the socket to the
\* request future it returns; call in any other state panics with
\* "poll_ready must be called first".
C30_ReadinessProtocol ==
    /\ [](ret = "Ready(Ok)" => (state.tag = "Connected" /\ state.socket \in 1..established))
    /\ [][CallReturned =>
            IF state.tag = "Connected"
            THEN /\ ret' = "future"
                 /\ state' = Sending
                 /\ request'.socket = state.socket
                 /\ chan' = EmptyChannel
            ELSE ret' = CallPanic]_vars

\* A second call right after a first one, with no poll_ready in between,
\* panicked.
C30_Witness ==
    /\ ret = CallPanic
    /\ state = Sending
    /\ request.st = "pending"
    /\ request.socket \in 1..established

\* A step in which poll_ready returned: the request future is untouched and
\* nothing panicked.
PollReadyReturned ==
    /\ ret # CallPanic
    /\ ret' # CallPanic
    /\ request' = request
    /\ failedOn' = failedOn

\* A step in which the request future completed with the given result.
RequestCompleted(result) ==
    /\ request.st = "pending"
    /\ request'.st = "done"
    /\ request'.result = result

\* C31: a request future that completes with a send error reports None; the
\* next poll_ready moves Sending -> Disconnected -> Connecting; poll_ready
\* reports ready again only with a connection established after the failure,
\* and no later request is given a socket on which a send failed.
C31_SendErrorReconnects ==
    /\ [][RequestCompleted("Err") => chan' = SentChannel(None)]_vars
    /\ [][(PollReadyReturned /\ chan = SentChannel(None)) =>
            /\ state = Sending
            /\ Len(path') >= 2
            /\ SubSeq(path', 1, 2) = <<"Disconnected", "Connecting">>
            /\ \/ state' = Connecting /\ ret' = "Pending"
               \/ /\ state' = Connected(established + 1)
                  /\ established' = established + 1
                  /\ ret' = "Ready(Ok)"]_vars
    /\ [](state.tag = "Connected" => state.socket \notin failedOn)
    /\ [](request.st = "pending" => request.socket \notin failedOn)

\* After a failed send on the first socket the service reconnected, and a
\* later request holds the second socket.
C31_Witness ==
    /\ failedOn = {1}
    /\ established = 2
    /\ state = Sending
    /\ request.st = "pending"
    /\ request.socket = 2

\* C32: a request future that completes with a successful send, complete or
\* incomplete, returns its socket; the next poll_ready moves Sending ->
\* Connected with that same socket, assigning no other state and starting no
\* connection attempt.
C32_SendOkKeepsSocket ==
    /\ [][RequestCompleted("Ok") =>
            /\ chan' = SentChannel(Some(request.socket))
            /\ request'.incomplete = (request'.sent # Len(request.buf))]_vars
    /\ [][(PollReadyReturned /\ chan.st = "sent" /\ chan.val # None) =>
            /\ state = Sending
            /\ state' = Connected(request.socket)
            /\ path' = <<"Connected">>
            /\ established' = established
            /\ fut' = fut
            /\ fut' = NoConnect
            /\ ret' = "Ready(Ok)"]_vars

\* The service is ready again on the socket of an incomplete send, having
\* gone from Sending straight to Connected.
C32_Witness ==
    /\ request.st = "done"
    /\ request.result = "Ok"
    /\ request.incomplete
    /\ state = Connected(request.socket)
    /\ path = <<"Connected">>
    /\ ret = "Ready(Ok)"
    /\ established = 1

\* C33: when the request future is dropped before it reported back, the
\* sender is dropped without sending; poll_ready then returns
\* Err(ServiceSocketChannelClosed) and leaves the state Sending, every later
\* poll_ready returns the same error, and the service is never Connected or
\* ready again.
C33_DroppedRequestIsTerminal ==
    /\ [][(request.st = "pending" /\ request'.st = "dropped") =>
            chan' = ClosedChannel]_vars
    /\ [][(PollReadyReturned /\ request.st = "dropped") =>
            /\ ret' = "Ready(Err(ServiceSocketChannelClosed))"
            /\ state' = Sending
            /\ state' = state
            /\ chan' = ClosedChannel
            /\ path' = <<>>]_vars
    /\ [][request.st = "dropped" => request'.st = "dropped"]_vars
    /\ [](request.st = "dropped" =>
            /\ state = Sending
            /\ chan = ClosedChannel
            /\ ret # "Ready(Ok)")

\* poll_ready returned the channel error after the request was dropped.
C33_Witness ==
    /\ request.st = "dropped"
    /\ ret = "Ready(Err(ServiceSocketChannelClosed))"
    /\ state = Sending
    /\ path = <<>>

\* The service has no socket and is not waiting for a request.
AwaitingConnection == state.tag \in {"Disconnected", "Connecting"}

\* C34: poll_ready never surfaces a connection failure: polled in
\* Disconnected or Connecting it returns Pending, keeping the same
\* connect_backoff future that retries after each failed attempt, or
\* Ready(Ok(())) with the state Connected on a new socket; and as long as
\* the caller keeps to the protocol and a connect attempt can still succeed,
\* the service eventually is Connected with poll_ready returning Ready(Ok(())).
C34_ConnectRetriesUntilSuccess ==
    /\ [][(PollReadyReturned /\ AwaitingConnection) =>
            \/ /\ ret' = "Pending"
               /\ state' = Connecting
               /\ fut'.running
               /\ fut'.attempts \in
                    IF state.tag = "Connecting"
                    THEN {fut.attempts, fut.attempts + 1} ELSE {0, 1}
            \/ /\ ret' = "Ready(Ok)"
               /\ state' = Connected(established + 1)
               /\ established' = established + 1]_vars
    /\ [](ret = "Ready(Err(ServiceSocketChannelClosed))" => request.st = "dropped")
    /\ [](ret \in {"", "future", "Pending", "Ready(Ok)", CallPanic,
                   "Ready(Err(ServiceSocketChannelClosed))"})
    /\ ([](ret # CallPanic) =>
            ((AwaitingConnection /\ established < MaxSockets)
                ~> (state.tag = "Connected" /\ ret = "Ready(Ok)")))

\* The connect_backoff future has failed twice and is still being polled.
C34_Witness ==
    /\ state = Connecting
    /\ fut.running
    /\ fut.attempts = 2
    /\ ret = "Pending"


(***************************************************************************)
(* Properties of the throttle transform                                    *)
(***************************************************************************)

\* The output stream: the yielded vectors flattened.
RECURSIVE Flatten(_)
Flatten(vectors) ==
    IF vectors = <<>> THEN <<>>
    ELSE Head(vectors) \o Flatten(Tail(vectors))

Emitted == Flatten(yielded)

\* A step in which the transform received an event from the input stream.
EventReceived == input_rx # <<>> /\ consumed' = Append(consumed, Head(input_rx))

\* What the step yielded.
Output == yielded'[Len(yielded')]

\* C35: an event for which the configured exclude condition holds is
\* emitted and takes no cell from the rate limiter; any other event (not
\* excluded, or no exclude condition configured) is emitted iff the rate
\* limiter admits it, which takes a cell, and is dropped otherwise.
C35_ExcludedBypassLimiter ==
    [][EventReceived =>
        /\ Len(yielded') = Len(yielded) + 1
        /\ IF exclude # None /\ Head(input_rx).excluded
           THEN /\ Output = <<Head(input_rx)>>
                /\ limiter' = limiter
           ELSE /\ Output = IF limiter > 0 THEN <<Head(input_rx)>> ELSE <<>>
                /\ limiter' = IF limiter > 0 THEN limiter - 1 ELSE limiter]_vars

\* With an exclude condition configured and the limiter exhausted, an
\* excluded event was emitted after a limited event was dropped.
C35_Witness ==
    /\ exclude # None
    /\ limiter = 0
    /\ Len(consumed) >= 2
    /\ consumed[Len(consumed)].excluded
    /\ ~consumed[Len(consumed) - 1].excluded
    /\ yielded[Len(yielded)] = <<consumed[Len(consumed)]>>
    /\ consumed[Len(consumed) - 1] \notin {Emitted[k] : k \in 1..Len(Emitted)}

\* The output stream picks events of the received input, each at most once
\* and in the order of the input.
IsSubsequenceOfInput ==
    /\ \A i \in 1..Len(consumed) : consumed[i].id = i
    /\ \A k \in 1..Len(Emitted) :
          /\ Emitted[k].id \in 1..Len(consumed)
          /\ consumed[Emitted[k].id] = Emitted[k]
    /\ \A j, k \in 1..Len(Emitted) : j < k => Emitted[j].id < Emitted[k].id

\* A step in which the loop yielded on a flush tick.
Ticked == yielded' # yielded /\ consumed' = consumed /\ done' = done

\* C36: the output stream is an order-preserving subsequence of the input
\* stream: it only grows, by events received, never twice and never out of
\* order; a flush tick emits nothing; the output stream ends only after the
\* input stream ended and emits nothing afterwards, and once the input
\* stream has ended the output stream eventually ends.
C36_OutputIsSubsequence ==
    /\ [](IsSubsequenceOfInput)
    /\ [][/\ Len(Emitted') >= Len(Emitted)
          /\ SubSeq(Emitted', 1, Len(Emitted)) = Emitted]_vars
    /\ [][Ticked => Emitted' = Emitted]_vars
    /\ [](done => input_rx = <<>>)
    /\ [][done => yielded' = yielded]_vars
    /\ ((pc = "throttle" /\ input_rx = <<>>) ~> done)

\* The stream ended after a flush tick, having emitted some of the events it
\* received and dropped another.
C36_Witness ==
    /\ done
    /\ Ticks >= 1
    /\ Len(Emitted) >= 1
    /\ Len(Emitted) < Len(consumed)
    /\ Len(consumed) = MaxEvents

====
